---- MODULE Spec2Model ----
(***************************************************************************)
(* Attendance derivation engine of the biometrics dashboard (App.jsx).     *)
(*                                                                         *)
(* JavaScript values are modelled as records [type, str, num]:             *)
(*   - a string is the sequence of its characters (str);                   *)
(*   - a number is an IEEE 754 double (num): sign * mant * 2^exp with a    *)
(*     mantissa of up to 53 bits, or an infinity; sums, quotients and      *)
(*     conversions round to nearest, ties to even, as the language does;   *)
(*   - NaN and undefined are values of their own.                          *)
(***************************************************************************)
EXTENDS Integers, Sequences, FiniteSets, TLC

VARIABLES
    record,          \* the attendance record a table row / chart point is drawn for
    calls,           \* which of the per-record helpers have been applied to it
    workingHours,    \* getWorkingHours(record)         (cap defaults to true)
    chartHours,      \* getWorkingHours(record, false)  (workingHoursChartData)
    late,            \* isLate(record.Check_In)
    parsedIn,        \* timeToHours(record.Check_In)
    parsedOut,       \* timeToHours(record.Check_Out)
    bin,             \* the check-in bucket the binner counts the record in
    timeZone,        \* the time zone of the browser the page runs in
    fromDate,        \* the From Date input: "" or an ISO date
    toDate,          \* the To Date input: "" or an ISO date
    records,         \* the records state: the rows the last search returned
    rendered,        \* whether the summary below was computed from this state
    summary,         \* the derived statistics of one render of App
    isLoggedIn,      \* the isLoggedIn state
    employeeId,      \* the employee select: "" or an Employee_ID
    searches,        \* how many /api/search requests are in flight
    latestInFlight,  \* whether the one sent last is among them
    upload,          \* the /api/upload request in flight (uploadLoading) and
                     \* the state its handler was created with
    loading,         \* the loading state, shared by both fetches
    error,           \* the error state: null or a message
    employees,       \* the employees state
    uploadMessage,   \* the uploadMessage state
    employeeFile,    \* whether employeeFile holds a file (or null)
    attendanceFile,  \* whether attendanceFile holds a file (or null)
    employeeFetches, \* how many /api/employees requests are in flight
    effectDeps,      \* [isLoggedIn, uploadMessage] as the employees effect
                     \* last saw them
    latestResult     \* history: the answer to the last search sent

recordVars  == <<record, calls, workingHours, chartHours, late, parsedIn,
                 parsedOut, bin>>
summaryVars == <<timeZone, fromDate, toDate, records, rendered, summary>>
appVars == <<isLoggedIn, employeeId, searches, latestInFlight, upload, loading, error,
             employees, uploadMessage, employeeFile, attendanceFile,
             employeeFetches, effectDeps, latestResult>>
vars == <<recordVars, summaryVars, appVars>>

----------------------------------------------------------------------------
(* Natural numbers of any size, for the arithmetic of Number: a sequence   *)
(* of limbs in base 2^15, lowest first, with no leading zero limb (0 is    *)
(* the empty sequence).                                                    *)

\* The digits of a numeric literal, up to radix 16.
Digits == <<"0", "1", "2", "3", "4", "5", "6", "7", "8", "9">>
HexDigits ==
    <<"0", "1", "2", "3", "4", "5", "6", "7", "8", "9", "a", "b", "c", "d",
      "e", "f">>
UpperHexDigits ==
    <<"0", "1", "2", "3", "4", "5", "6", "7", "8", "9", "A", "B", "C", "D",
      "E", "F">>
DecimalDigits == { "0", "1", "2", "3", "4", "5", "6", "7", "8", "9" }
IsDigit(c) == c \in DecimalDigits
DigitValues ==
    ("0" :> 0) @@ ("1" :> 1) @@ ("2" :> 2) @@ ("3" :> 3) @@ ("4" :> 4)
    @@ ("5" :> 5) @@ ("6" :> 6) @@ ("7" :> 7) @@ ("8" :> 8) @@ ("9" :> 9)
    @@ ("a" :> 10) @@ ("b" :> 11) @@ ("c" :> 12) @@ ("d" :> 13)
    @@ ("e" :> 14) @@ ("f" :> 15) @@ ("A" :> 10) @@ ("B" :> 11)
    @@ ("C" :> 12) @@ ("D" :> 13) @@ ("E" :> 14) @@ ("F" :> 15)
IsRadixDigit(c, radix) == c \in DOMAIN DigitValues /\ DigitValues[c] < radix
DigitValue(c) == DigitValues[c]

Base == 32768

RECURSIVE Pow(_, _)
Pow(k, n) == IF n = 0 THEN 1 ELSE k * Pow(k, n - 1)
\* The powers of two below Base, and 2^n for n < 15.
PowersOfTwo ==
    <<1, 2, 4, 8, 16, 32, 64, 128, 256, 512, 1024, 2048, 4096, 8192, 16384>>
Pow2(n) == PowersOfTwo[n + 1]

\* a without its leading zero limbs.
RECURSIVE BigTrim(_)
BigTrim(a) ==
    IF a # <<>> /\ a[Len(a)] = 0 THEN BigTrim(SubSeq(a, 1, Len(a) - 1)) ELSE a

RECURSIVE BigOfNat(_)
BigOfNat(n) == IF n = 0 THEN <<>> ELSE <<n % Base>> \o BigOfNat(n \div Base)

\* Limb i of a, 0 outside it.
Limb(a, i) == IF 1 <= i /\ i <= Len(a) THEN a[i] ELSE 0

\* The operations below work on the limbs lo..hi, one half after the
\* other: the limbs of the result in the order they were worked out, and
\* the carry, borrow or remainder that one half hands to the next.
OneLimb(limb, carry) == [limbs |-> <<limb>>, carry |-> carry]
Joined(limbs, rest) == [limbs |-> limbs \o rest.limbs, carry |-> rest.carry]
WithCarry(sum) == sum.limbs \o BigOfNat(sum.carry)

\* Limbs lo..hi of a + b + c and the carry out.
RECURSIVE AddRange(_, _, _, _, _)
AddHigh(a, b, low, lo, hi) == Joined(low.limbs, AddRange(a, b, low.carry, lo, hi))
AddRange(a, b, c, lo, hi) ==
    IF lo > hi THEN [limbs |-> <<>>, carry |-> c]
    ELSE IF lo = hi
    THEN OneLimb((Limb(a, lo) + Limb(b, lo) + c) % Base,
                 (Limb(a, lo) + Limb(b, lo) + c) \div Base)
    ELSE AddHigh(a, b, AddRange(a, b, c, lo, (lo + hi) \div 2),
                 ((lo + hi) \div 2) + 1, hi)
BigAdd(a, b) ==
    WithCarry(AddRange(a, b, 0, 1, IF Len(a) > Len(b) THEN Len(a) ELSE Len(b)))

\* Limbs lo..hi of a - b - c and the borrow out, for a >= b.
RECURSIVE SubRange(_, _, _, _, _)
SubHigh(a, b, low, lo, hi) == Joined(low.limbs, SubRange(a, b, low.carry, lo, hi))
SubRange(a, b, c, lo, hi) ==
    IF lo > hi THEN [limbs |-> <<>>, carry |-> c]
    ELSE IF lo = hi
    THEN OneLimb((Base + Limb(a, lo) - Limb(b, lo) - c) % Base,
                 IF Limb(a, lo) - Limb(b, lo) - c < 0 THEN 1 ELSE 0)
    ELSE SubHigh(a, b, SubRange(a, b, c, lo, (lo + hi) \div 2),
                 ((lo + hi) \div 2) + 1, hi)
BigSub(a, b) == BigTrim(SubRange(a, b, 0, 1, Len(a)).limbs)

\* -1, 0 or 1 as a < b, a = b or a > b.
Differing(a, b) == { i \in 1..Len(a) : a[i] # b[i] }
TopOf(set) == CHOOSE i \in set : \A j \in set : j <= i
CmpAt(a, b, set) ==
    IF set = {} THEN 0 ELSE IF a[TopOf(set)] < b[TopOf(set)] THEN 0 - 1 ELSE 1
BigCmp(a, b) ==
    IF Len(a) < Len(b) THEN 0 - 1
    ELSE IF Len(a) > Len(b) THEN 1
    ELSE CmpAt(a, b, Differing(a, b))

\* Limbs lo..hi of a * k + c and the carry out, for 0 <= k, c < 2^16.
RECURSIVE MulRange(_, _, _, _, _)
MulHigh(a, k, low, lo, hi) == Joined(low.limbs, MulRange(a, k, low.carry, lo, hi))
MulRange(a, k, c, lo, hi) ==
    IF lo > hi THEN [limbs |-> <<>>, carry |-> c]
    ELSE IF lo = hi
    THEN OneLimb((a[lo] * k + c) % Base, (a[lo] * k + c) \div Base)
    ELSE MulHigh(a, k, MulRange(a, k, c, lo, (lo + hi) \div 2),
                 ((lo + hi) \div 2) + 1, hi)
BigMulAdd(a, k, c) == BigTrim(WithCarry(MulRange(a, k, c, 1, Len(a))))
BigMulSmall(a, k) == BigMulAdd(a, k, 0)

\* Limbs hi..lo of the quotient of a by k, highest first as long division
\* yields them, and the remainder; r is the remainder of the limbs above,
\* 0 < k < 2^16.
RECURSIVE DivRange(_, _, _, _, _)
DivLow(a, k, high, lo, hi) == Joined(high.limbs, DivRange(a, k, high.carry, lo, hi))
DivRange(a, k, r, lo, hi) ==
    IF lo > hi THEN [limbs |-> <<>>, carry |-> r]
    ELSE IF lo = hi
    THEN OneLimb((r * Base + a[lo]) \div k, (r * Base + a[lo]) % k)
    ELSE DivLow(a, k, DivRange(a, k, r, ((lo + hi) \div 2) + 1, hi),
                lo, (lo + hi) \div 2)
Reversed(s) == [i \in 1..Len(s) |-> s[Len(s) + 1 - i]]
Quotient(d) == [q |-> BigTrim(Reversed(d.limbs)), r |-> d.carry]
BigDivSmall(a, k) == Quotient(DivRange(a, k, 0, 1, Len(a)))

Zeros(w) == [i \in 1..w |-> 0]

\* a * k for a power of two k < 2^15: every limb keeps its low bits,
\* moved up, and takes the high bits of the limb below.
ShiftedUp(a, k) ==
    BigTrim([i \in 1..(Len(a) + 1)
                 |-> ((Limb(a, i) * k) % Base) + ((Limb(a, i - 1) * k) \div Base)])

\* a * 2^n.
BigShl(a, n) ==
    IF a = <<>> THEN <<>>
    ELSE Zeros(n \div 15)
             \o (IF n % 15 = 0 THEN a ELSE ShiftedUp(a, Pow2(n % 15)))

\* The number of bits of a limb n < Base.
SmallBitLen(n) ==
    IF n < 128
    THEN IF n < 8
         THEN (IF n < 2 THEN n ELSE IF n < 4 THEN 2 ELSE 3)
         ELSE IF n < 32 THEN (IF n < 16 THEN 4 ELSE 5)
         ELSE IF n < 64 THEN 6 ELSE 7
    ELSE IF n < 2048
    THEN IF n < 512 THEN (IF n < 256 THEN 8 ELSE 9)
         ELSE IF n < 1024 THEN 10 ELSE 11
    ELSE IF n < 8192 THEN (IF n < 4096 THEN 12 ELSE 13)
    ELSE IF n < 16384 THEN 14 ELSE 15
BitLen(a) ==
    IF a = <<>> THEN 0 ELSE 15 * (Len(a) - 1) + SmallBitLen(a[Len(a)])

\* floor(a / (k * 2^(15 * w))) for a power of two k < 2^15: the limbs
\* above the w lowest, each without its low bits and with the low bits of
\* the limb above.
ShiftedDown(a, w, k) ==
    BigTrim([i \in 1..(Len(a) - w)
                 |-> (a[i + w] \div k) + ((Limb(a, i + w + 1) % k) * (Base \div k))])

\* Bit p of a, counted from 0, and whether a bit below it is set.
BitAt(a, p) == (Limb(a, (p \div 15) + 1) \div Pow2(p % 15)) % 2
LowerSet(a, p) ==
    \/ Limb(a, (p \div 15) + 1) % Pow2(p % 15) # 0
    \/ \E i \in 1..(p \div 15) : Limb(a, i) # 0

\* floor(a / 2^n), the bit below the cut and whether a lower bit is set.
BigShr(a, n) ==
    IF n = 0 THEN [q |-> a, half |-> FALSE, sticky |-> FALSE]
    ELSE [q      |-> ShiftedDown(a, n \div 15, Pow2(n % 15)),
          half   |-> BitAt(a, n - 1) = 1,
          sticky |-> LowerSet(a, n - 1)]

\* The number of zero bits below the lowest bit set of a > 0.
LowZeroBits(n) == CHOOSE k \in 0..14 : (n \div PowersOfTwo[k + 1]) % 2 = 1
ZeroLimbs(a) == Cardinality({ i \in 1..Len(a) : \A j \in 1..i : a[j] = 0 })
ZeroBitsFrom(a, w) == 15 * w + LowZeroBits(a[w + 1])
TrailingZeros(a) == ZeroBitsFrom(a, ZeroLimbs(a))

IsOdd(a) == a # <<>> /\ a[1] % 2 = 1

----------------------------------------------------------------------------
(* IEEE 754 double precision, the Number type *)

\* A finite number is sign * mant * 2^exp with mant odd and of at most 53
\* bits, exp at least -1074 and the number below 2^1024 in magnitude; 0
\* has the empty mantissa and exponent 0.
MantBits == 53
MinExp == 0 - 1074
MaxTop == 1024

Finite(sign, mant, exp) == [sign |-> sign, mant |-> mant, exp |-> exp, inf |-> FALSE]
Zero(sign) == Finite(sign, <<>>, 0)
Inf(sign) == [sign |-> sign, mant |-> <<>>, exp |-> 0, inf |-> TRUE]

\* One more than the position of the highest bit of a finite number.
Top(x) == x.exp + BitLen(x.mant)

\* sign * m * 2^exp for m of at most 53 bits and exp >= -1074: infinite
\* from 2^1024 on; the zero bits at the low end of m go to the exponent.
Reduced(sign, m, exp, zeros) ==
    IF zeros = 0 THEN Finite(sign, m, exp)
    ELSE Finite(sign, ShiftedDown(m, zeros \div 15, Pow2(zeros % 15)), exp + zeros)
Pack(sign, m, exp) ==
    IF m = <<>> THEN Zero(sign)
    ELSE IF exp + BitLen(m) > MaxTop THEN Inf(sign)
    ELSE Reduced(sign, m, exp, TrailingZeros(m))

\* sign * (n + f) * 2^exp rounded to nearest, ties to even, where
\* 0 < f < 1 if sticky and f = 0 otherwise; with sticky, n has 55 bits or
\* more.  The bits of n below 2^target are cut off, target leaving 53
\* bits, or fewer at the least exponent.
Rounded(sign, cut, sticky, target) ==
    Pack(sign,
         IF cut.half /\ (cut.sticky \/ sticky \/ IsOdd(cut.q))
         THEN BigAdd(cut.q, <<1>>) ELSE cut.q,
         target)
RoundAt(sign, n, exp, sticky, target) ==
    IF target <= exp THEN Pack(sign, n, exp)
    ELSE Rounded(sign, BigShr(n, target - exp), sticky, target)
TargetExp(exp) == IF exp > MinExp THEN exp ELSE MinExp
RoundToDouble(sign, n, exp, sticky) ==
    IF n = <<>> THEN Zero(sign)
    ELSE RoundAt(sign, n, exp, sticky, TargetExp(exp + BitLen(n) - MantBits))

\* sign * size * 2^exp of a number 0 <= size < 2^31, which is exact.
Exact(sign, size, exp) == Pack(sign, BigOfNat(size), exp)

\* The double nearest to sign * (d.q + d.r / k) * 2^exp of a division by k.
RoundQuotient(sign, d, exp) == RoundToDouble(sign, d.q, exp, d.r # 0)

\* The double nearest to sign * p / q for naturals p and 0 < q < 2^16.
DoubleOfRatio(sign, p, q) ==
    RoundQuotient(sign, BigDivSmall(BigShl(BigOfNat(p), 75), q), 0 - 75)

IsZero(x) == ~x.inf /\ x.mant = <<>>

\* -1, 0 or 1 as |x| < |y|, |x| = |y| or |x| > |y|, for finite x and y:
\* by the highest bits, and with these equal by the aligned mantissas.
CmpAligned(x, y) ==
    IF x.exp >= y.exp THEN BigCmp(BigShl(x.mant, x.exp - y.exp), y.mant)
    ELSE BigCmp(x.mant, BigShl(y.mant, y.exp - x.exp))
CmpMagnitude(x, y) ==
    IF x.mant = <<>> \/ y.mant = <<>>
    THEN (IF x.mant = y.mant THEN 0 ELSE IF x.mant = <<>> THEN 0 - 1 ELSE 1)
    ELSE IF Top(x) < Top(y) THEN 0 - 1
    ELSE IF Top(x) > Top(y) THEN 1
    ELSE CmpAligned(x, y)

\* -1, 0 or 1 as x < y, x = y or x > y.
SignOf(x) == IF IsZero(x) THEN 0 ELSE x.sign
DoubleCmp(x, y) ==
    IF SignOf(x) # SignOf(y) THEN (IF SignOf(x) < SignOf(y) THEN 0 - 1 ELSE 1)
    ELSE IF SignOf(x) = 0 THEN 0
    ELSE IF x.inf \/ y.inf
    THEN (IF x.inf = y.inf THEN 0 ELSE IF x.inf THEN x.sign ELSE 0 - x.sign)
    ELSE x.sign * CmpMagnitude(x, y)

\* x + y of two finite doubles.  The mantissas are aligned at the lower
\* exponent and added or subtracted.  An addend whose highest bit is more
\* than FarApart places below that of the other only makes the sum
\* inexact: the other is taken with 56 bits, just above or just below.
FarApart == 64
SignedSum(sa, a, sb, b) ==
    IF sa = sb THEN [sign |-> sa, mag |-> BigAdd(a, b)]
    ELSE IF BigCmp(a, b) >= 0 THEN [sign |-> sa, mag |-> BigSub(a, b)]
    ELSE [sign |-> sb, mag |-> BigSub(b, a)]
RoundSum(sum, exp, sticky) ==
    IF sum.mag = <<>> THEN Zero(1)
    ELSE RoundToDouble(sum.sign, sum.mag, exp, sticky)
AddFar(big, tiny, up) ==
    RoundSum(SignedSum(big.sign, BigShl(big.mant, up), tiny.sign,
                       IF big.sign = tiny.sign THEN <<>> ELSE <<1>>),
             big.exp - up, TRUE)
AddNear(hi, lo) ==
    RoundSum(SignedSum(hi.sign, BigShl(hi.mant, hi.exp - lo.exp),
                       lo.sign, lo.mant),
             lo.exp, FALSE)
DoubleAddFinite(x, y) ==
    IF IsZero(x)
    THEN (IF IsZero(y) THEN Zero(IF x.sign = y.sign THEN x.sign ELSE 1) ELSE y)
    ELSE IF IsZero(y) THEN x
    ELSE IF Top(x) - Top(y) > FarApart
    THEN AddFar(x, y, MantBits + 3 - BitLen(x.mant))
    ELSE IF Top(y) - Top(x) > FarApart
    THEN AddFar(y, x, MantBits + 3 - BitLen(y.mant))
    ELSE IF x.exp >= y.exp THEN AddNear(x, y)
    ELSE AddNear(y, x)

Negate(x) == [x EXCEPT !.sign = 0 - x.sign]

\* x / k of a finite double and an integer 0 < k < 2^16: the mantissa is
\* taken with DivBits bits, which leaves 56 or more to the quotient.
DivBits == 72
DivShifted(x, k, up) ==
    RoundQuotient(x.sign, BigDivSmall(BigShl(x.mant, up), k), x.exp - up)
DoubleDivFinite(x, k) ==
    IF x.mant = <<>> THEN x ELSE DivShifted(x, k, DivBits - BitLen(x.mant))

\* A sequence of digits without its leading zeros.
DropZeros(s) ==
    SubSeq(s, Cardinality({ i \in 1..Len(s) : \A j \in 1..i : s[j] = "0" }) + 1,
           Len(s))

\* The decimal digits of a natural number below 2^31.
RECURSIVE SmallToDigits(_)
SmallToDigits(n) ==
    IF n < 10 THEN <<Digits[n + 1]>>
    ELSE SmallToDigits(n \div 10) \o <<Digits[(n % 10) + 1]>>

\* The decimal digits of a natural number of any size.  The lowest n
\* groups of four digits are divided off, the lower half of them first:
\* what is left of the number and the digits of the groups.  2^13 is less
\* than 10^4, so a number of b bits has at most b / 13 + 1 groups.
DigitGroup(n) ==
    <<Digits[(n \div 1000) + 1], Digits[((n \div 100) % 10) + 1],
      Digits[((n \div 10) % 10) + 1], Digits[(n % 10) + 1]>>
OneGroup(d) == [q |-> d.q, digits |-> DigitGroup(d.r)]
Before(low, high) == [q |-> high.q, digits |-> high.digits \o low.digits]
RECURSIVE GroupsOf(_, _)
HighGroups(low, n) ==
    IF low.q = <<>> THEN low ELSE Before(low, GroupsOf(low.q, n))
GroupsOf(a, n) ==
    IF n = 1 THEN OneGroup(BigDivSmall(a, 10000))
    ELSE HighGroups(GroupsOf(a, n \div 2), n - n \div 2)
BigToDigits(a) ==
    IF a = <<>> THEN <<"0">>
    ELSE DropZeros(GroupsOf(a, (BitLen(a) \div 13) + 1).digits)

\* a * k^n for a base 2 <= k <= 16.
RECURSIVE BigTimesPow(_, _, _)
BigTimesPow(a, k, n) ==
    IF a = <<>> \/ n = 0 THEN a
    ELSE IF n <= 3 THEN BigMulSmall(a, Pow(k, n))
    ELSE BigTimesPow(BigTimesPow(a, k, n \div 2), k, n - n \div 2)
BigTimesPow10(a, n) == BigTimesPow(a, 10, n)

\* The value of a sequence of digits of a radix, of any length: the value
\* of the leading half, shifted, plus the value of the rest.
RECURSIVE SmallOfDigits(_, _)
SmallOfDigits(s, radix) ==
    IF s = <<>> THEN 0
    ELSE SmallOfDigits(SubSeq(s, 1, Len(s) - 1), radix) * radix
         + DigitValue(s[Len(s)])
RECURSIVE BigOfDigits(_, _)
BigOfDigits(s, radix) ==
    IF Len(s) <= 3 THEN BigOfNat(SmallOfDigits(s, radix))
    ELSE BigAdd(BigTimesPow(BigOfDigits(SubSeq(s, 1, Len(s) \div 2), radix),
                            radix, Len(s) - Len(s) \div 2),
                BigOfDigits(SubSeq(s, (Len(s) \div 2) + 1, Len(s)), radix))

\* floor(a / 5^n), and whether a division left a remainder or sticky was
\* set before.
RECURSIVE BigOverPow5(_, _, _)
Inexact(d, sticky) == [q |-> d.q, sticky |-> sticky \/ d.r # 0]
OverRest(first, n) == BigOverPow5(first.q, n, first.sticky)
BigOverPow5(a, n, sticky) ==
    IF a = <<>> THEN [q |-> <<>>, sticky |-> sticky]
    ELSE IF n <= 6 THEN Inexact(BigDivSmall(a, Pow(5, n)), sticky)
    ELSE OverRest(BigOverPow5(a, n \div 2, sticky), n - n \div 2)

\* The double nearest to sign * digits * 10^exp10: a literal of len
\* significant digits is below 10^(exp10 + len); one with a negative
\* exponent is digits * 2^shift / 5^k / 2^(shift + k), the shift leaving
\* 55 bits or more to the quotient.
MaxDecimalExp == 309
MinDecimalExp == 0 - 324
DecimalShift(k) == 58 + (7 * k) \div 3
RoundInexact(sign, qs, exp) == RoundToDouble(sign, qs.q, exp, qs.sticky)
ScaledDecimal(sign, d, exp10, len) ==
    IF d = <<>> THEN Zero(sign)
    ELSE IF exp10 + len > MaxDecimalExp THEN Inf(sign)
    ELSE IF exp10 + len < MinDecimalExp THEN Zero(sign)
    ELSE IF exp10 >= 0
    THEN RoundInexact(sign, [q |-> BigTimesPow10(d, exp10), sticky |-> FALSE], 0)
    ELSE RoundInexact(sign,
                      BigOverPow5(BigShl(d, DecimalShift(0 - exp10)),
                                  0 - exp10, FALSE),
                      exp10 - DecimalShift(0 - exp10))
DoubleOfDecimal(sign, digits, exp10) ==
    ScaledDecimal(sign, BigOfDigits(digits, 10), exp10, Len(DropZeros(digits)))

----------------------------------------------------------------------------
(* JavaScript values *)

\* The num field of a value that is not a number.
NoNumber == Zero(1)

Undefined == [type |-> "undefined", str |-> <<>>, num |-> NoNumber]
NaN       == [type |-> "NaN", str |-> <<>>, num |-> NoNumber]
Str(s)    == [type |-> "string", str |-> s, num |-> NoNumber]
Num(d)    == [type |-> "number", str |-> <<>>, num |-> d]

\* n * 2^exp for a limb n > 0 with z low zero bits, its mantissa odd.
Odd(sign, n, exp, z) == Finite(sign, <<n \div Pow2(z)>>, exp + z)

\* The number literal n/d of the source, n a limb and d a power of two
\* below Base (9.5 is Lit(19, 2), 0 is Lit(0, 1)).
Lit(n, d) ==
    IF n = 0 THEN Num(Zero(1))
    ELSE IF n < 0
    THEN Num(Odd(0 - 1, 0 - n, 1 - SmallBitLen(d), LowZeroBits(0 - n)))
    ELSE Num(Odd(1, n, 1 - SmallBitLen(d), LowZeroBits(n)))

Infinity(sign) == Num(Inf(sign))

NA == Str(<<"N", "/", "A">>)
EmptyString == Str(<<>>)

IsNumber(x) == x.type = "number"
isNaN(x) == x.type = "NaN"

\* !x of JavaScript: undefined, "", 0, -0 and NaN are falsy.
Falsy(x) ==
    \/ x.type = "undefined"
    \/ x.type = "NaN"
    \/ x.type = "string" /\ x.str = <<>>
    \/ x.type = "number" /\ IsZero(x.num)

\* a === b of two numbers: 0 and -0 are equal.
NumberEquals(a, b) == IsNumber(a) /\ IsNumber(b) /\ DoubleCmp(a.num, b.num) = 0

\* a + b, a - b, a / k (k a positive integer) of operands that are numbers,
\* NaN or undefined: NaN and undefined give NaN.
Plus(a, b) ==
    IF ~IsNumber(a) \/ ~IsNumber(b) THEN NaN
    ELSE IF a.num.inf \/ b.num.inf
    THEN (IF a.num.inf /\ b.num.inf /\ a.num.sign # b.num.sign THEN NaN
          ELSE IF a.num.inf THEN a ELSE b)
    ELSE Num(DoubleAddFinite(a.num, b.num))
Minus(a, b) ==
    IF IsNumber(b) THEN Plus(a, Num(Negate(b.num))) ELSE NaN
DivBy(a, k) ==
    IF ~IsNumber(a) THEN NaN
    ELSE IF a.num.inf THEN a
    ELSE Num(DoubleDivFinite(a.num, k))

\* a < b, a > b, a >= b, a <= b: every comparison with NaN is false.
Less(a, b)      == IsNumber(a) /\ IsNumber(b) /\ DoubleCmp(a.num, b.num) < 0
Greater(a, b)   == IsNumber(a) /\ IsNumber(b) /\ DoubleCmp(a.num, b.num) > 0
GreaterEq(a, b) == IsNumber(a) /\ IsNumber(b) /\ DoubleCmp(a.num, b.num) >= 0
LessEq(a, b)    == IsNumber(a) /\ IsNumber(b) /\ DoubleCmp(a.num, b.num) <= 0

\* Math.min and Math.max: NaN if either argument is NaN; -0 is less than 0.
LesserBy(a, b, c) ==
    IF c < 0 THEN a ELSE IF c > 0 THEN b ELSE IF a.num.sign < 0 THEN a ELSE b
GreaterBy(a, b, c) ==
    IF c > 0 THEN a ELSE IF c < 0 THEN b ELSE IF a.num.sign > 0 THEN a ELSE b
MathMin(a, b) ==
    IF ~IsNumber(a) \/ ~IsNumber(b) THEN NaN
    ELSE LesserBy(a, b, DoubleCmp(a.num, b.num))
MathMax(a, b) ==
    IF ~IsNumber(a) \/ ~IsNumber(b) THEN NaN
    ELSE GreaterBy(a, b, DoubleCmp(a.num, b.num))

----------------------------------------------------------------------------
(* Strings *)

\* The value of a short sequence of decimal digits.
RECURSIVE DigitsValue(_)
DigitsValue(s) ==
    IF s = <<>> THEN 0
    ELSE 10 * DigitsValue(SubSeq(s, 1, Len(s) - 1)) + DigitValue(s[Len(s)])

\* The longest prefix of s made of digits.
RECURSIVE LeadingDigits(_)
LeadingDigits(s) ==
    IF s = <<>> \/ ~IsDigit(Head(s)) THEN <<>>
    ELSE <<Head(s)>> \o LeadingDigits(Tail(s))

\* Two decimal digits of n < 100.
TwoDigits(n) == <<Digits[(n \div 10) + 1], Digits[(n % 10) + 1]>>

\* s.split(sep): the pieces between the separators; "" splits to [""].
RECURSIVE split(_, _)
split(s, sep) ==
    IF \A i \in 1..Len(s) : s[i] # sep THEN <<s>>
    ELSE LET k == CHOOSE i \in 1..Len(s) :
                      s[i] = sep /\ \A j \in 1..(i - 1) : s[j] # sep
         IN  <<SubSeq(s, 1, k - 1)>> \o split(SubSeq(s, k + 1, Len(s)), sep)

\* The white space and line terminators of the language.  A character is a
\* one-character string; one that a string of this module cannot hold is
\* written as its code point.
WhiteSpace ==
    { "\t", "\n", "\f", "\r", " ", "U+000B", "U+00A0", "U+1680", "U+2000",
      "U+2001", "U+2002", "U+2003", "U+2004", "U+2005", "U+2006", "U+2007",
      "U+2008", "U+2009", "U+200A", "U+2028", "U+2029", "U+202F", "U+205F",
      "U+3000", "U+FEFF" }

\* String.prototype.trim.
RECURSIVE TrimLeft(_)
TrimLeft(q) ==
    IF q # <<>> /\ Head(q) \in WhiteSpace THEN TrimLeft(Tail(q)) ELSE q
RECURSIVE TrimRight(_)
TrimRight(q) ==
    IF q # <<>> /\ q[Len(q)] \in WhiteSpace
    THEN TrimRight(SubSeq(q, 1, Len(q) - 1)) ELSE q
trim(x) == Str(TrimRight(TrimLeft(x.str)))

StartsWith(s, prefix) ==
    Len(s) >= Len(prefix) /\ SubSeq(s, 1, Len(prefix)) = prefix

InfinityLiteral == <<"I", "n", "f", "i", "n", "i", "t", "y">>

\* The exponent of a literal: more than four digits saturate.
MaxExponentDigits == 4
ExponentValue(s) ==
    IF Len(DropZeros(s)) > MaxExponentDigits THEN 99999
    ELSE DigitsValue(DropZeros(s))

\* The exponent part at the start of tail, "e" or "E", an optional sign and
\* digits: its length and value, both 0 when it is not complete.
ExponentDigits(digits, sign, skip) ==
    IF digits = <<>> THEN [len |-> 0, value |-> 0]
    ELSE [len |-> skip + Len(digits), value |-> sign * ExponentValue(digits)]
SignedExponent(after) ==
    IF after # <<>> /\ Head(after) \in {"+", "-"}
    THEN ExponentDigits(LeadingDigits(Tail(after)),
                        IF Head(after) = "-" THEN 0 - 1 ELSE 1, 2)
    ELSE ExponentDigits(LeadingDigits(after), 1, 1)
ExponentAt(tail) ==
    IF tail # <<>> /\ Head(tail) \in {"e", "E"} THEN SignedExponent(Tail(tail))
    ELSE [len |-> 0, value |-> 0]

\* The fraction part at the start of rest: whether there is a point, and
\* the digits after it.
FractionAt(rest) ==
    IF rest # <<>> /\ Head(rest) = "."
    THEN [dot |-> 1, digits |-> LeadingDigits(Tail(rest))]
    ELSE [dot |-> 0, digits |-> <<>>]

\* The longest prefix of s that is an unsigned decimal literal: digits, an
\* optional fraction and an optional exponent, which counts only when
\* complete.  len is 0 when there is none; the value is digits * 10^exp10.
WithExponent(digits, mlen, flen, e) ==
    [len |-> mlen + e.len, digits |-> digits, exp10 |-> e.value - flen]
Mantissa(s, digits, mlen, flen) ==
    WithExponent(digits, mlen, flen, ExponentAt(SubSeq(s, mlen + 1, Len(s))))
WithFraction(s, int, frac) ==
    IF int = <<>> /\ frac.digits = <<>>
    THEN [len |-> 0, digits |-> <<>>, exp10 |-> 0]
    ELSE Mantissa(s, int \o frac.digits,
                  Len(int) + frac.dot + Len(frac.digits), Len(frac.digits))
AfterInteger(s, int) ==
    WithFraction(s, int, FractionAt(SubSeq(s, Len(int) + 1, Len(s))))
DecimalPrefix(s) == AfterInteger(s, LeadingDigits(s))

\* The longest prefix of s that is a signed decimal literal or a signed
\* Infinity, and its value; len is 0 when there is none.
Valued(p, sign, slen) ==
    IF p.len = 0 THEN [len |-> 0, value |-> NaN]
    ELSE [len   |-> slen + p.len,
          value |-> Num(DoubleOfDecimal(sign, p.digits, p.exp10))]
UnsignedPrefix(body, sign, slen) ==
    IF StartsWith(body, InfinityLiteral)
    THEN [len |-> slen + Len(InfinityLiteral), value |-> Infinity(sign)]
    ELSE Valued(DecimalPrefix(body), sign, slen)
SignedPrefix(s) ==
    IF s # <<>> /\ Head(s) \in {"-", "+"}
    THEN UnsignedPrefix(Tail(s), IF Head(s) = "-" THEN 0 - 1 ELSE 1, 1)
    ELSE UnsignedPrefix(s, 1, 0)

\* The radix a 0x, 0o or 0b prefix announces, 10 without such a prefix.
RadixOf(t) ==
    IF StartsWith(t, <<"0", "x">>) \/ StartsWith(t, <<"0", "X">>) THEN 16
    ELSE IF StartsWith(t, <<"0", "o">>) \/ StartsWith(t, <<"0", "O">>) THEN 8
    ELSE IF StartsWith(t, <<"0", "b">>) \/ StartsWith(t, <<"0", "B">>) THEN 2
    ELSE 10

\* The digits after a 0x, 0o or 0b prefix, read in that radix.
RadixDigits(body, radix) ==
    IF body # <<>> /\ \A i \in 1..Len(body) : IsRadixDigit(body[i], radix)
    THEN Num(RoundToDouble(1, BigOfDigits(body, radix), 0, FALSE))
    ELSE NaN
RadixLiteral(s, radix) == RadixDigits(SubSeq(s, 3, Len(s)), radix)

\* Number(s) of a string: white space around it is dropped; "" is 0; the
\* rest must be one numeric literal as a whole, or the result is NaN.
WholeLiteral(t, p) == IF p.len = Len(t) THEN p.value ELSE NaN
NumberOfTrimmed(t, radix) ==
    IF t = <<>> THEN Num(Zero(1))
    ELSE IF radix # 10 THEN RadixLiteral(t, radix)
    ELSE WholeLiteral(t, SignedPrefix(t))
TrimmedNumber(t) == NumberOfTrimmed(t, RadixOf(t))
Number(s) == TrimmedNumber(TrimRight(TrimLeft(s)))

\* A parseFloat that accepts numbers only and rejects numeric strings.
parseFloatNumbersOnly(x) == IF x.type = "number" THEN x ELSE NaN

\* parseFloat(x): of a string, the longest numeric prefix after leading
\* white space, NaN if there is none; a number is read back from its own
\* text, which gives the number (0 for -0); NaN for undefined.
parseFloat(x) ==
    IF x.type = "number"
    THEN (IF IsZero(x.num) THEN Num(Zero(1)) ELSE x)
    ELSE IF x.type # "string" THEN NaN
    ELSE SignedPrefix(TrimLeft(x.str)).value

----------------------------------------------------------------------------
(* Time parser, lateness classifier, working-hours calculator *)

\* Seconds taken as they are, with no default for a missing piece.
OrZeroNoDefault(x) == x

\* `seconds || 0`: a missing, zero or NaN seconds piece counts as 0.
OrZero(x) == IF Falsy(x) THEN Lit(0, 1) ELSE x

\* time.split(':').map(Number), as far as its third entry: an entry the
\* split does not yield is undefined.
Pieces(parts) ==
    [i \in 1..3 |-> IF i <= Len(parts) THEN Number(parts[i]) ELSE Undefined]

\* hours + minutes / 60 + (seconds || 0) / 3600
InHours(hours, minutes, seconds) ==
    Plus(Plus(hours, DivBy(minutes, 60)), DivBy(OrZero(seconds), 3600))
HoursOf(pieces) == InHours(pieces[1], pieces[2], pieces[3])

timeToHours(time) ==
    IF Falsy(time) \/ time = NA \/ time = EmptyString THEN Lit(0, 1)
    ELSE HoursOf(Pieces(split(time.str, ":")))

\* The late threshold of isLate, 9.5.
LateThreshold == Lit(19, 2)

\* isLate with the threshold itself counted as late (>= for >).
isLateFromThreshold(checkIn) ==
    IF Falsy(checkIn) \/ checkIn = NA \/ checkIn = EmptyString THEN FALSE
    ELSE GreaterEq(timeToHours(checkIn), LateThreshold)

isLate(checkIn) ==
    IF Falsy(checkIn) \/ checkIn = NA \/ checkIn = EmptyString THEN FALSE
    ELSE Greater(timeToHours(checkIn), LateThreshold)

\* A shift start of 9:00 instead of 9:30.
startTimeHoursNine == Lit(9, 1)

startTimeHours == Lit(19, 2)
endTimeHours   == Lit(17, 1)
maxWorkHours   == Lit(15, 2)

\* Math.max(0, Math.min(rawHours, maxWorkHours))
CapRaw(rawHours) == MathMax(Lit(0, 1), MathMin(rawHours, maxWorkHours))

\* Math.min(actualWorkingHours, maxWorkHours), the cap of the reported value
CapReported(actualWorkingHours) == MathMin(actualWorkingHours, maxWorkHours)

\* Presence decided from the parsed number: a time that parses to 0 counts
\* as missing.
MissingByValue(field) ==
    Falsy(field) \/ field = NA \/ field = EmptyString
        \/ NumberEquals(timeToHours(field), Lit(0, 1))

\* record.X is missing: !record.X || record.X === 'N/A' || record.X === ''
Missing(field) == Falsy(field) \/ field = NA \/ field = EmptyString

\* The raw hours of a record, capped unless cap is off.
Capped(rawHours, cap) == IF cap THEN CapRaw(rawHours) ELSE rawHours

\* The branch of getWorkingHours for a record with both times: the
\* reported hours if they parse, the raw hours otherwise.
ReportedOrRaw(rec, actualWorkingHours, rawHours, cap) ==
    IF ~isNaN(actualWorkingHours) /\ rec.Working_Hours # NA
    THEN (IF cap THEN CapReported(actualWorkingHours) ELSE actualWorkingHours)
    ELSE Capped(rawHours, cap)

\* getWorkingHours after its two calls of timeToHours.
HoursWorked(rec, checkInHours, checkOutHours, cap) ==
    IF Missing(rec.Check_In)
    THEN IF ~Falsy(rec.Check_Out) /\ rec.Check_Out # NA
               /\ rec.Check_Out # EmptyString
         THEN Capped(Minus(checkOutHours, startTimeHours), cap)
         ELSE Lit(0, 1)
    ELSE IF Missing(rec.Check_Out)
    THEN Capped(Minus(endTimeHours, checkInHours), cap)
    ELSE ReportedOrRaw(rec, parseFloat(rec.Working_Hours),
                       Minus(checkOutHours, checkInHours), cap)

getWorkingHours(rec, cap) ==
    HoursWorked(rec, timeToHours(rec.Check_In), timeToHours(rec.Check_Out), cap)

\* The keys of timeBins, in insertion order.
BinLabels ==
    <<"Before 8 AM", "8:00 - 8:59 AM", "9:00 - 9:29 AM",
      "9:30 - 10:29 AM (Late)", "10:30 - 11:29 AM (Late)",
      "11:30 AM - 12:29 PM (Late)", "After 12:30 PM (Late)",
      "Missing Check-In">>

\* A binner whose boundaries belong to the earlier bucket (<= for <).
BinOfInclusive(checkInHours) ==
    IF LessEq(checkInHours, Lit(8, 1)) THEN BinLabels[1]
    ELSE IF LessEq(checkInHours, Lit(9, 1)) THEN BinLabels[2]
    ELSE IF LessEq(checkInHours, Lit(19, 2)) THEN BinLabels[3]
    ELSE IF LessEq(checkInHours, Lit(21, 2)) THEN BinLabels[4]
    ELSE IF LessEq(checkInHours, Lit(23, 2)) THEN BinLabels[5]
    ELSE IF LessEq(checkInHours, Lit(25, 2)) THEN BinLabels[6]
    ELSE BinLabels[7]
checkInBinInclusive(rec) ==
    IF ~Falsy(rec.Check_In) /\ rec.Check_In # NA /\ rec.Check_In # EmptyString
    THEN BinOfInclusive(timeToHours(rec.Check_In))
    ELSE BinLabels[8]

\* The if / else-if chain of the forEach over checkInHours: the key of
\* timeBins it increments.
BinOf(checkInHours) ==
    IF Less(checkInHours, Lit(8, 1)) THEN BinLabels[1]
    ELSE IF GreaterEq(checkInHours, Lit(8, 1)) /\ Less(checkInHours, Lit(9, 1))
    THEN BinLabels[2]
    ELSE IF GreaterEq(checkInHours, Lit(9, 1)) /\ Less(checkInHours, Lit(19, 2))
    THEN BinLabels[3]
    ELSE IF GreaterEq(checkInHours, Lit(19, 2)) /\ Less(checkInHours, Lit(21, 2))
    THEN BinLabels[4]
    ELSE IF GreaterEq(checkInHours, Lit(21, 2)) /\ Less(checkInHours, Lit(23, 2))
    THEN BinLabels[5]
    ELSE IF GreaterEq(checkInHours, Lit(23, 2)) /\ Less(checkInHours, Lit(25, 2))
    THEN BinLabels[6]
    ELSE BinLabels[7]

\* A binner that decides presence from the parsed number: a check-in that
\* parses to 0 goes to the missing bucket.
BinOfValue(checkInHours) ==
    IF Falsy(checkInHours) /\ ~isNaN(checkInHours) THEN BinLabels[8]
    ELSE BinOf(checkInHours)
checkInBinByValue(rec) == BinOfValue(timeToHours(rec.Check_In))

\* A binner whose last bucket is tested like the others (>= 12.5): a time
\* that is not a number increments no bucket.
BinOfNoElse(checkInHours) ==
    IF isNaN(checkInHours) THEN "none" ELSE BinOf(checkInHours)
checkInBinNoElse(rec) ==
    IF ~Falsy(rec.Check_In) /\ rec.Check_In # NA /\ rec.Check_In # EmptyString
    THEN BinOfNoElse(timeToHours(rec.Check_In))
    ELSE BinLabels[8]

\* The body of the forEach of checkInDistributionData: the key of timeBins
\* that the record increments.
checkInBin(rec) ==
    IF ~Falsy(rec.Check_In) /\ rec.Check_In # NA /\ rec.Check_In # EmptyString
    THEN BinOf(timeToHours(rec.Check_In))
    ELSE BinLabels[8]

\* timeBins[label] after the forEach, given the label each record
\* incremented.
CountInBin(incremented, label) ==
    Cardinality({ i \in 1..Len(incremented) : incremented[i] = label })

\* checkInDistributionData(): Object.keys(timeBins), Object.values(timeBins)
BinCounts(incremented) ==
    [labels |-> BinLabels,
     data   |-> [b \in 1..Len(BinLabels)
                     |-> CountInBin(incremented, BinLabels[b])]]
checkInDistributionData(recs) ==
    BinCounts([i \in 1..Len(recs) |-> checkInBin(recs[i])])

\* The clock strings "HH:MM:SS" and "HH:MM".
ClockHMS(h, m, s) == Str(TwoDigits(h) \o <<":">> \o TwoDigits(m) \o <<":">> \o TwoDigits(s))
ClockHM(h, m)     == Str(TwoDigits(h) \o <<":">> \o TwoDigits(m))

----------------------------------------------------------------------------
(* Dates.  A Date's time value is a whole number of minutes since          *)
(* 1970-01-01T00:00Z (the source's milliseconds divided by 60000); counts  *)
(* of days and of records are plain integers.                              *)

\* 1000 * 60 * 60 * 24 milliseconds, in minutes.
MinutesPerDay == 1440

\* Days since 1970-01-01 of a proleptic-Gregorian calendar date.
DaysFromCivil(y, m, d) ==
    LET yy  == IF m <= 2 THEN y - 1 ELSE y
        era == yy \div 400
        yoe == yy - era * 400
        mp  == (m + 9) % 12
        doy == (153 * mp + 2) \div 5 + d - 1
        doe == yoe * 365 + yoe \div 4 - yoe \div 100 + doy
    IN  era * 146097 + doe - 719468

\* The calendar date <<year, month, day>> of a day number.
CivilFromDays(z) ==
    LET zz  == z + 719468
        era == zz \div 146097
        doe == zz - era * 146097
        yoe == (doe - doe \div 1460 + doe \div 36524 - doe \div 146096) \div 365
        doy == doe - (365 * yoe + yoe \div 4 - yoe \div 100)
        mp  == (5 * doy + 2) \div 153
        d   == doy - (153 * mp + 2) \div 5 + 1
        m   == IF mp < 10 THEN mp + 3 ELSE mp - 9
        y   == yoe + era * 400
    IN  <<IF m <= 2 THEN y + 1 ELSE y, m, d>>

FourDigits(n) == TwoDigits(n \div 100) \o TwoDigits(n % 100)

\* The string "YYYY-MM-DD".
IsoDate(y, m, d) ==
    Str(FourDigits(y) \o <<"-">> \o TwoDigits(m) \o <<"-">> \o TwoDigits(d))

\* new Date("YYYY-MM-DD"): a date-only ISO string is midnight UTC.
NewDate(iso) ==
    LET pieces == split(iso.str, "-")
    IN  MinutesPerDay * DaysFromCivil(DigitsValue(pieces[1]),
                                      DigitsValue(pieces[2]),
                                      DigitsValue(pieces[3]))

\* d.toISOString().split('T')[0]: the UTC calendar date of a time value.
toISODate(t) ==
    LET c == CivilFromDays(t \div MinutesPerDay)
    IN  IsoDate(c[1], c[2], c[3])

\* The day number of the first Sunday of a month, of the second and of the
\* last (day 0, 1970-01-01, was a Thursday).
SundayOnOrAfter(z)  == z + ((7 - ((z + 4) % 7)) % 7)
SundayOnOrBefore(z) == z - ((z + 4) % 7)
FirstSunday(y, m)  == SundayOnOrAfter(DaysFromCivil(y, m, 1))
SecondSunday(y, m) == FirstSunday(y, m) + 7
LastSunday(y, m)   == SundayOnOrBefore(DaysFromCivil(y, m + 1, 1) - 1)

\* The days on which America/New_York enters and leaves daylight time in a
\* year, by the rules of the time zone database: in 1918 to 1920 from the
\* last Sunday of March to the last of October; until 1954 from the last
\* Sunday of April to the last of September, with daylight time throughout
\* from 9 February 1942 to 30 September 1945; until 1986 from the last
\* Sunday of April (6 January in 1974, 23 February in 1975) to the last of
\* October; until 2006 from the first Sunday of April; since 2007 from the
\* second Sunday of March to the first of November.
NewYorkDaylight(y) ==
    IF y >= 2007 THEN <<SecondSunday(y, 3), FirstSunday(y, 11)>>
    ELSE IF y >= 1987 THEN <<FirstSunday(y, 4), LastSunday(y, 10)>>
    ELSE IF y = 1975 THEN <<DaysFromCivil(1975, 2, 23), LastSunday(y, 10)>>
    ELSE IF y = 1974 THEN <<DaysFromCivil(1974, 1, 6), LastSunday(y, 10)>>
    ELSE IF y >= 1955 THEN <<LastSunday(y, 4), LastSunday(y, 10)>>
    ELSE IF y >= 1946 THEN <<LastSunday(y, 4), LastSunday(y, 9)>>
    ELSE IF y = 1945 THEN <<DaysFromCivil(1944, 12, 31), LastSunday(y, 9)>>
    ELSE IF y >= 1943 THEN <<DaysFromCivil(y - 1, 12, 31), DaysFromCivil(y + 1, 1, 2)>>
    ELSE IF y = 1942 THEN <<DaysFromCivil(1942, 2, 9), DaysFromCivil(1943, 1, 2)>>
    ELSE IF y >= 1921 THEN <<LastSunday(y, 4), LastSunday(y, 9)>>
    ELSE IF y >= 1918 THEN <<LastSunday(y, 3), LastSunday(y, 10)>>
    ELSE <<0, 0>>

\* Daylight time starts at 2:00 standard time (7:00 UTC) and ends at 2:00
\* daylight time (6:00 UTC).
NewYorkOffset(t) ==
    LET days == NewYorkDaylight(CivilFromDays(t \div MinutesPerDay)[1])
    IN  IF MinutesPerDay * days[1] + 7 * 60 <= t
               /\ t < MinutesPerDay * days[2] + 6 * 60
        THEN 0 - 240 ELSE 0 - 300

\* Asia/Kolkata: UTC+5:30, and UTC+6:30 from 1 October 1941 to 14 May 1942
\* and from 1 September 1942 to 14 October 1945, local midnights.
KolkataOffset(t) ==
    LET at(y, m, d, o) == MinutesPerDay * DaysFromCivil(y, m, d) - o
    IN  IF \/ at(1941, 10, 1, 330) <= t /\ t < at(1942, 5, 15, 390)
           \/ at(1942, 9, 1, 330) <= t /\ t < at(1945, 10, 15, 390)
        THEN 390 ELSE 330

\* The environment's time zones: minutes east of UTC at a time value, for
\* the years in which the zone keeps whole minutes (New York from 18
\* November 1883, Kolkata from 1906).
TimeZones == {"UTC", "Asia/Kolkata", "America/New_York"}
Offsets(zone) ==
    CASE zone = "UTC" -> {0}
      [] zone = "Asia/Kolkata" -> {330, 390}
      [] zone = "America/New_York" -> {0 - 240, 0 - 300}
OffsetAt(zone, t) ==
    CASE zone = "UTC" -> 0
      [] zone = "Asia/Kolkata" -> KolkataOffset(t)
      [] zone = "America/New_York" -> NewYorkOffset(t)

\* LocalTime(t) and UTC(local) of the language: a local time that occurs
\* twice is the earlier instant, one that is skipped takes the offset
\* before the transition.
LocalTime(zone, t) == t + OffsetAt(zone, t)
UtcOfLocal(zone, local) ==
    LET hits == { u \in { local - o : o \in Offsets(zone) } :
                      LocalTime(zone, u) = local }
    IN  IF hits # {} THEN CHOOSE u \in hits : \A v \in hits : u <= v
        ELSE local - OffsetAt(zone, local - MinutesPerDay)

\* d.setDate(d.getDate() + 1): the same local clock time on the next
\* local calendar day.
NextLocalDay(zone, t) == UtcOfLocal(zone, LocalTime(zone, t) + MinutesPerDay)

\* A setDate that steps the time value by 24 hours twice.
NextLocalDayTwice(zone, t) == t + 2 * MinutesPerDay

WeekdayNames ==
    <<"Sunday", "Monday", "Tuesday", "Wednesday", "Thursday", "Friday",
      "Saturday">>

\* A weekday taken from the UTC day shifted by one (Monday for Sunday).
toLocaleWeekdayShifted(zone, t) ==
    WeekdayNames[((LocalTime(zone, t) \div MinutesPerDay + 5) % 7) + 1]

\* d.toLocaleDateString('en-US', { weekday: 'long' }): the weekday of the
\* local calendar day (1970-01-01 was a Thursday).
toLocaleWeekday(zone, t) ==
    WeekdayNames[((LocalTime(zone, t) \div MinutesPerDay + 4) % 7) + 1]

----------------------------------------------------------------------------
(* Attendance aggregator *)

\* A total that counts every record.
totalAttendanceAll(recs) == Len(recs)

\* records.filter(r => r.Status === 'PRESENT').length
totalAttendance(recs) ==
    Cardinality({ i \in 1..Len(recs) : recs[i].Status = "PRESENT" })

\* A totalDays that falls back to the number of PRESENT records.
totalDaysOfPresent(recs, from, to) ==
    IF ~Falsy(from) /\ ~Falsy(to)
    THEN (NewDate(to) - NewDate(from)) \div MinutesPerDay + 1
    ELSE totalAttendance(recs)

totalDays(recs, from, to) ==
    IF ~Falsy(from) /\ ~Falsy(to)
    THEN (NewDate(to) - NewDate(from)) \div MinutesPerDay + 1
    ELSE Len(recs)

\* One iteration of the for loop of getAbsentDates, ahead of the entries
\* of the iterations after it.
Visit(recs, dateStr, dayOfWeek, isAbsent, rest) ==
    [visited |-> <<dateStr>> \o rest.visited,
     absent  |-> (IF isAbsent THEN <<[date |-> dateStr, day |-> dayOfWeek]>>
                  ELSE <<>>) \o rest.absent]

isWeekend(dayOfWeek) == dayOfWeek = "Saturday" \/ dayOfWeek = "Sunday"

\* !hasRecord && !isWeekend, or a record of the date with Status ABSENT
isAbsentOn(recs, dateStr, dayOfWeek) ==
    \/ ~(\E i \in 1..Len(recs) : recs[i].Date = dateStr)
           /\ ~isWeekend(dayOfWeek)
    \/ \E i \in 1..Len(recs) :
           recs[i].Date = dateStr /\ recs[i].Status = "ABSENT"

\* The for loop of getAbsentDates from time value d: the dateStr of every
\* iteration (visited) and the entries pushed (absent).
RECURSIVE AbsentLoop(_, _, _, _)
VisitDay(zone, recs, d, end, dateStr, dayOfWeek) ==
    Visit(recs, dateStr, dayOfWeek, isAbsentOn(recs, dateStr, dayOfWeek),
          AbsentLoop(zone, recs, NextLocalDay(zone, d), end))
AbsentLoop(zone, recs, d, end) ==
    IF ~(d <= end) THEN [visited |-> <<>>, absent |-> <<>>]
    ELSE VisitDay(zone, recs, d, end, toISODate(d), toLocaleWeekday(zone, d))

\* A test that lists every weekday, with or without a record.
isAbsentOnNoRecordTest(recs, dateStr, dayOfWeek) ==
    \/ ~isWeekend(dayOfWeek)
    \/ \E i \in 1..Len(recs) :
           recs[i].Date = dateStr /\ recs[i].Status = "ABSENT"

\* A loop that lists every weekday it visits, with or without a record.
RECURSIVE AbsentLoopNoRecordTest(_, _, _, _)
VisitDayNoRecordTest(zone, recs, d, end, dateStr, dayOfWeek) ==
    Visit(recs, dateStr, dayOfWeek,
          isAbsentOnNoRecordTest(recs, dateStr, dayOfWeek),
          AbsentLoopNoRecordTest(zone, recs, NextLocalDay(zone, d), end))
AbsentLoopNoRecordTest(zone, recs, d, end) ==
    IF ~(d <= end) THEN [visited |-> <<>>, absent |-> <<>>]
    ELSE VisitDayNoRecordTest(zone, recs, d, end, toISODate(d),
                              toLocaleWeekday(zone, d))

\* getAbsentDates over that loop.
getAbsentDatesNoRecordTest(zone, recs, from, to) ==
    IF Falsy(from) \/ Falsy(to) THEN [visited |-> <<>>, absent |-> <<>>]
    ELSE AbsentLoopNoRecordTest(zone, recs, NewDate(from), NewDate(to))

getAbsentDates(zone, recs, from, to) ==
    IF Falsy(from) \/ Falsy(to) THEN [visited |-> <<>>, absent |-> <<>>]
    ELSE AbsentLoop(zone, recs, NewDate(from), NewDate(to))

\* The entry the forEach over records pushes for a record, if any.
ExtraEntry(r, dayOfWeek) ==
    IF r.Status = "PRESENT" /\ isWeekend(dayOfWeek)
    THEN <<[date |-> r.Date, day |-> dayOfWeek]>> ELSE <<>>
RECURSIVE getExtraWorkingDates(_, _)
getExtraWorkingDates(zone, recs) ==
    IF recs = <<>> THEN <<>>
    ELSE ExtraEntry(Head(recs), toLocaleWeekday(zone, NewDate(Head(recs).Date)))
             \o getExtraWorkingDates(zone, Tail(recs))

\* The decimal digits of a natural number.
RECURSIVE NatToString(_)
NatToString(n) ==
    IF n < 10 THEN <<Digits[n + 1]>>
    ELSE NatToString(n \div 10) \o <<Digits[(n % 10) + 1]>>

\* 10^21, from which on toFixed prints a number as toString does.
\* 10^21 = 5^21 * 2^21, the bound of Number.prototype.toFixed.
ToFixedLimit == Finite(1, <<12021, 6876, 18105, 13>>, 21)

\* String(d) of a finite double d >= 10^21, an integer: the fewest
\* significant digits that read back as d, of two such numbers the nearer
\* one, then "e+" and the decimal exponent.
MaxShortestDigits == 17

\* The numbers of k digits next to the first k digits of all, below and
\* above, that read back as d when the other digits are zeros.
ReadsBack(c, exp10, d) ==
    DoubleCmp(DoubleOfDecimal(1, BigToDigits(c), exp10), d) = 0
Around(low) == {low, BigAdd(low, <<1>>)}
GoodAt(all, k, d) ==
    { c \in Around(BigOfDigits(SubSeq(all, 1, k), 10)) :
          ReadsBack(c, Len(all) - k, d) }

\* The least number of digits k, from k on, with such a number.
RECURSIVE ShortestGood(_, _, _, _)
ShortestGood(all, d, k, good) ==
    IF good # {} \/ k = MaxShortestDigits THEN [k |-> k, good |-> good]
    ELSE ShortestGood(all, d, k + 1, GoodAt(all, k + 1, d))

\* Of the numbers in good, times 10^exp10, the one nearest to value, the
\* even one of two as near.
Distance(full, value) ==
    IF BigCmp(full, value) >= 0 THEN BigSub(full, value)
    ELSE BigSub(value, full)
Nearer(a, da, db) == BigCmp(da, db) < 0 \/ (BigCmp(da, db) = 0 /\ ~IsOdd(a))
DistanceOf(c, exp10, value) == Distance(BigTimesPow10(c, exp10), value)
Nearest(good, exp10, value) ==
    CHOOSE c \in good : \A o \in good \ {c} :
        Nearer(c, DistanceOf(c, exp10, value), DistanceOf(o, exp10, value))

\* The digits, a point after the first if there are more, and the exponent.
ExponentForm(digits, k, n) ==
    (IF k > 1 THEN <<Head(digits), ".">> \o Tail(digits)
     ELSE <<Head(digits)>>)
        \o <<"e", "+">> \o SmallToDigits(Len(digits) + n - k - 1)
ShortestForm(all, value, s) ==
    ExponentForm(BigToDigits(Nearest(s.good, Len(all) - s.k, value)),
                 s.k, Len(all))
ShortestOf(all, value, d) ==
    ShortestForm(all, value, ShortestGood(all, d, 1, GoodAt(all, 1, d)))
ShortestDigits(value, d) == ShortestOf(BigToDigits(value), value, d)
ExponentialString(d) ==
    ShortestDigits(BigShl(d.mant, d.exp), Finite(1, d.mant, d.exp))

\* The integer n for which n / 100 is nearest to the exact value of the
\* finite double d in magnitude, the larger n of two.
HalfUp(cut) == IF cut.half THEN BigAdd(cut.q, <<1>>) ELSE cut.q
Hundredths(scaled, exp) ==
    IF exp >= 0 THEN BigShl(scaled, exp) ELSE HalfUp(BigShr(scaled, 0 - exp))

\* The digits of n with a point before the last two, "0.0d" for one digit.
Padded(digits) ==
    IF Len(digits) < 3
    THEN SubSeq(<<"0", "0">>, 1, 3 - Len(digits)) \o digits
    ELSE digits
Pointed(padded) ==
    SubSeq(padded, 1, Len(padded) - 2) \o <<".">>
        \o SubSeq(padded, Len(padded) - 1, Len(padded))
FixedDigits(d) ==
    Pointed(Padded(BigToDigits(Hundredths(BigMulSmall(d.mant, 100), d.exp))))

MinusIf(negative) == IF negative THEN <<"-">> ELSE <<>>

\* x.toFixed(2).  Below 10^21 in magnitude: the integer n for which n / 100
\* is nearest to the exact value of the double, the larger n of two, printed
\* with a point before its last two digits and with a minus sign if x < 0.
\* From 10^21 on: String(x).  "NaN" for NaN, "Infinity" for the infinities.
toFixed2(x) ==
    IF ~IsNumber(x) THEN Str(<<"N", "a", "N">>)
    ELSE IF x.num.inf THEN Str(MinusIf(x.num.sign < 0) \o InfinityLiteral)
    ELSE IF CmpMagnitude(x.num, ToFixedLimit) >= 0
    THEN Str(MinusIf(x.num.sign < 0) \o ExponentialString(x.num))
    ELSE Str(MinusIf(x.num.sign < 0 /\ ~IsZero(x.num)) \o FixedDigits(x.num))

\* records.reduce((sum, r) => sum + getWorkingHours(r), 0)
RECURSIVE SumWorkingHours(_, _)
SumWorkingHours(sum, recs) ==
    IF recs = <<>> THEN sum
    ELSE SumWorkingHours(Plus(sum, getWorkingHours(Head(recs), TRUE)), Tail(recs))

avgWorkingHours(recs) ==
    IF Len(recs) > 0
    THEN toFixed2(DivBy(SumWorkingHours(Lit(0, 1), recs), Len(recs)))
    ELSE Lit(0, 1)

\* The data of attendanceChartData: present on time, present late, absent.
ChartData(recs, lateness, totalAbsent) ==
    <<Cardinality({ i \in 1..Len(recs) :
          recs[i].Status = "PRESENT" /\ ~lateness[i] }),
      Cardinality({ i \in 1..Len(recs) :
          recs[i].Status = "PRESENT" /\ lateness[i] }),
      totalAbsent>>
attendanceChartData(recs, totalAbsent) ==
    ChartData(recs, [i \in 1..Len(recs) |-> isLate(recs[i].Check_In)],
              totalAbsent)

\* App bins check-in times only: it derives no check-out distribution, so
\* the summary carries one with no bucket.
NoDistribution == [labels |-> <<>>, data |-> <<>>]

\* The statistics one render of App derives from its state.
Rendered(zone, recs, from, to, loop) ==
    [attendanceChartData |-> attendanceChartData(recs, Len(loop.absent)),
     checkInDistribution |-> checkInDistributionData(recs),
     checkOutDistribution |-> NoDistribution,
     totalAttendance   |-> totalAttendance(recs),
     totalDays         |-> totalDays(recs, from, to),
     absentDates       |-> loop.absent,
     enumerated        |-> loop.visited,
     extraWorkingDates |-> getExtraWorkingDates(zone, recs),
     totalAbsent       |-> Len(loop.absent),
     avgWorkingHours   |-> avgWorkingHours(recs)]
Render(zone, recs, from, to) ==
    Rendered(zone, recs, from, to, getAbsentDates(zone, recs, from, to))

NoSummary ==
    [attendanceChartData |-> <<0, 0, 0>>,
     checkInDistribution |-> NoDistribution,
     checkOutDistribution |-> NoDistribution,
     totalAttendance |-> 0, totalDays |-> 0, absentDates |-> <<>>,
     enumerated |-> <<>>, extraWorkingDates |-> <<>>, totalAbsent |-> 0,
     avgWorkingHours |-> Undefined]

----------------------------------------------------------------------------
(* Times of day and durations in whole seconds, as the claims count them *)

\* One hour: timeToHours divides seconds by 3600.
Scale == 3600

\* The error allowed to a number computed in floating point: 2^-30 hours.
Tolerance == Exact(1, 1, 0 - 30)

\* The double nearest to n seconds, in hours.
SecondsAsHours(n) ==
    DoubleOfRatio(IF n < 0 THEN 0 - 1 ELSE 1, IF n < 0 THEN 0 - n ELSE n, Scale)

\* x is a number of hours that is n seconds, up to the rounding of the
\* arithmetic that computed it.
IsSeconds(x, n) ==
    /\ IsNumber(x) /\ ~x.num.inf
    /\ CmpMagnitude(DoubleAddFinite(x.num, Negate(SecondsAsHours(n))),
                    Tolerance) < 0

----------------------------------------------------------------------------
(* Inputs of the per-record helpers *)

\* Hour, minute, second triples of the clock times a record may carry.
CheckInClocks ==
    { <<0, 0, 0>>, <<8, 0, 0>>, <<9, 0, 0>>, <<9, 15, 0>>, <<9, 29, 59>>,
      <<9, 30, 0>>, <<9, 30, 1>>, <<10, 0, 0>>, <<10, 29, 59>>, <<10, 30, 0>>,
      <<12, 30, 0>>, <<23, 59, 59>> }
CheckOutClocks ==
    { <<0, 0, 0>>, <<9, 15, 0>>, <<17, 0, 0>>, <<17, 30, 0>>, <<18, 0, 0>>,
      <<23, 59, 59>> }

Sentinels == { Undefined, EmptyString, NA }

\* A time string with a non-numeric piece, and one with no minutes.
Malformed == { Str(<<"a", "b", ":", "3", "0", ":", "0", "0">>), Str(<<"9">>) }

CheckInValues ==
    Sentinels \cup Malformed \cup { ClockHM(9, 30), ClockHM(9, 31) }
        \cup { ClockHMS(t[1], t[2], t[3]) : t \in CheckInClocks }
CheckOutValues ==
    Sentinels \cup Malformed \cup { ClockHM(17, 30) }
        \cup { ClockHMS(t[1], t[2], t[3]) : t \in CheckOutClocks }

\* Working_Hours as the upstream export supplies it: absent, the marker
\* 'N/A', text, a duration written as hours and minutes, a number, or a
\* numeric string, which may be padded or written with an exponent.
WorkingHoursValues ==
    { Undefined, NA, EmptyString, Str(<<"a", "b", "c">>),
      Str(<<"7", ":", "3", "0">>),
      Lit(0, 1), Lit(13, 2), Lit(15, 2), Lit(9, 1), Lit(-2, 1),
      Str(<<"6", ".", "5">>), Str(<<"8", ".", "2", "5">>),
      Str(<<"-", "1", ".", "5">>), Str(<<" ", "6", ".", "5">>),
      Str(<<"1", "e", "1">>) }

\* One value of each kind of Working_Hours: absent, a numeric string, a
\* number above the cap.
FewWorkingHours == { Undefined, Str(<<"6", ".", "5">>), Lit(9, 1) }

\* A missing time and a few clock times on either side of the shift.
FewCheckIns ==
    { NA, ClockHMS(0, 0, 0), ClockHMS(9, 0, 0), ClockHMS(10, 0, 0) }
FewCheckOuts ==
    { NA, ClockHMS(0, 0, 0), ClockHMS(9, 15, 0), ClockHMS(17, 0, 0),
      ClockHMS(18, 0, 0) }

\* Every pair of times with a few Working_Hours values, and every
\* Working_Hours value with a few pairs of times.
RecordInputs ==
    [Check_In : CheckInValues, Check_Out : CheckOutValues,
     Working_Hours : FewWorkingHours]
        \cup [Check_In : FewCheckIns, Check_Out : FewCheckOuts,
              Working_Hours : WorkingHoursValues]

----------------------------------------------------------------------------
(* Inputs of the aggregator *)

\* The largest record set of the date-range inputs and of the
\* working-hours inputs.
MaxRecords == 2
MaxHoursRecords == 3
MaxBinRecords == 2

\* Friday 1 to Monday 4 November 2024; New York falls back on Sunday 3.
WindowDays == 1..4
WindowDate(i) == IsoDate(2024, 11, i)
WindowWeekday(i) == <<"Friday", "Saturday", "Sunday", "Monday">>[i]

\* A bound of the range: not set, the first or the last day of the window.
DateInputs == { EmptyString, WindowDate(1), WindowDate(4) }

\* A day's record as the export writes it for a status.
PresentDay(date) ==
    [Date |-> date, Status |-> "PRESENT", Check_In |-> ClockHMS(9, 15, 0),
     Check_Out |-> ClockHMS(17, 30, 0), Working_Hours |-> NA]
AbsentDay(date) ==
    [Date |-> date, Status |-> "ABSENT", Check_In |-> NA, Check_Out |-> NA,
     Working_Hours |-> NA]

\* Friday with either status, a worked Saturday, Monday with either
\* status; Sunday has no record.
DayRecords ==
    { PresentDay(WindowDate(i)) : i \in {1, 2, 4} }
        \cup { AbsentDay(WindowDate(i)) : i \in {1, 4} }

\* Records of one day that differ in their hours, with the capped hours
\* the policy assigns to each (in the model's unit).
HoursProfiles ==
    { <<AbsentDay(WindowDate(1)), 0>>,
      <<PresentDay(WindowDate(1)), (15 * Scale) \div 2>>,
      <<[Date |-> WindowDate(1), Status |-> "PRESENT",
         Check_In |-> ClockHMS(10, 0, 0), Check_Out |-> ClockHMS(18, 0, 0),
         Working_Hours |-> Lit(13, 2)], (13 * Scale) \div 2>>,
      <<[Date |-> WindowDate(1), Status |-> "PRESENT",
         Check_In |-> ClockHMS(9, 30, 0), Check_Out |-> ClockHMS(12, 15, 0),
         Working_Hours |-> Undefined], (11 * Scale) \div 4>>,
      <<[Date |-> WindowDate(1), Status |-> "PRESENT",
         Check_In |-> ClockHMS(17, 30, 0), Check_Out |-> NA,
         Working_Hours |-> NA], 0>> }
HoursRecords == { p[1] : p \in HoursProfiles }

\* A malformed check-out beside a well-formed check-in.
BadCheckOut ==
    [Date |-> WindowDate(1), Status |-> "PRESENT",
     Check_In |-> ClockHMS(9, 15, 0),
     Check_Out |-> Str(<<"1", "7", ":", "x", "x">>), Working_Hours |-> NA]

\* Records of one day that differ in their check-in, and an ABSENT row
\* that still carries a late check-in.
BinClocks ==
    { <<0, 0, 0>>, <<7, 59, 59>>, <<8, 0, 0>>, <<8, 59, 59>>, <<9, 0, 0>>,
      <<9, 29, 59>>, <<9, 30, 0>>, <<9, 30, 1>>, <<10, 0, 0>>, <<10, 29, 59>>,
      <<10, 30, 0>>, <<11, 29, 59>>, <<11, 30, 0>>, <<12, 29, 59>>,
      <<12, 30, 0>>, <<17, 30, 0>>, <<23, 59, 59>> }
BinCheckIns ==
    { ClockHMS(t[1], t[2], t[3]) : t \in BinClocks }
        \cup Sentinels \cup { Str(<<"9">>), ClockHM(9, 30) }
BinRecords ==
    { [Date |-> WindowDate(1), Status |-> "PRESENT", Check_In |-> c,
       Check_Out |-> NA, Working_Hours |-> NA] : c \in BinCheckIns }
        \cup { AbsentDay(WindowDate(1)), BadCheckOut,
               [Date |-> WindowDate(1), Status |-> "ABSENT",
                Check_In |-> ClockHMS(10, 0, 0), Check_Out |-> NA,
                Working_Hours |-> NA] }

\* The records binned beside one of BinRecords: a check-in at 12:30:00,
\* none, and the late check-in of an ABSENT row.
BinCompanions ==
    { [Date |-> WindowDate(1), Status |-> "PRESENT",
       Check_In |-> ClockHMS(12, 30, 0), Check_Out |-> NA,
       Working_Hours |-> NA],
      AbsentDay(WindowDate(1)),
      [Date |-> WindowDate(1), Status |-> "ABSENT",
       Check_In |-> ClockHMS(10, 0, 0), Check_Out |-> NA,
       Working_Hours |-> NA] }

SeqsUpTo(S, n) == UNION { [1..k -> S] : k \in 0..n }

\* No record, or one of BinRecords followed by companions, MaxBinRecords
\* records at most.
BinInputs ==
    { <<>> } \cup { <<r>> \o rest : r \in BinRecords,
                       rest \in SeqsUpTo(BinCompanions, MaxBinRecords - 1) }

\* The state of the App component when it is mounted (the useState
\* defaults), with no request in flight.
NoUpload ==
    [inFlight |-> FALSE, employeeId |-> EmptyString,
     fromDate |-> EmptyString, toDate |-> EmptyString]
Null == "null"
NoResult == [done |-> FALSE, records |-> <<>>]
Mounted ==
    /\ isLoggedIn = FALSE
    /\ employeeId = EmptyString
    /\ searches = 0
    /\ latestInFlight = FALSE
    /\ upload = NoUpload
    /\ loading = FALSE
    /\ error = Null
    /\ employees = <<>>
    /\ uploadMessage = ""
    /\ employeeFile = FALSE
    /\ attendanceFile = FALSE
    /\ employeeFetches = 0
    /\ effectDeps = <<FALSE, "">>
    /\ latestResult = NoResult

----------------------------------------------------------------------------
(* One render of the summary *)

InitSummary ==
    /\ record = [Check_In |-> NA, Check_Out |-> NA, Working_Hours |-> NA]
    /\ calls = {}
    /\ workingHours = Undefined
    /\ chartHours = Undefined
    /\ late = FALSE
    /\ parsedIn = Undefined
    /\ parsedOut = Undefined
    /\ bin = "none"
    /\ \/ /\ timeZone \in TimeZones
          /\ fromDate \in DateInputs
          /\ toDate \in DateInputs
          /\ records \in SeqsUpTo(DayRecords, MaxRecords)
       \/ /\ timeZone = "Asia/Kolkata"
          /\ fromDate = EmptyString
          /\ toDate = EmptyString
          /\ records \in SeqsUpTo(HoursRecords, MaxHoursRecords)
       \/ /\ timeZone = "UTC"
          /\ fromDate = EmptyString
          /\ toDate = EmptyString
          /\ records \in BinInputs
    /\ rendered = FALSE
    /\ summary = NoSummary
    /\ Mounted

RECURSIVE Reverse(_)
Reverse(q) == IF q = <<>> THEN <<>> ELSE Reverse(Tail(q)) \o <<Head(q)>>

\* A render whose statistics reorder the records array in place.
RenderSummaryInPlace ==
    /\ ~rendered
    /\ summary' = Render(timeZone, records, fromDate, toDate)
    /\ records' = Reverse(records)
    /\ rendered' = TRUE
    /\ UNCHANGED <<recordVars, timeZone, fromDate, toDate, appVars>>

\* The body of App from totalAttendance to checkInDistributionData.
RenderSummary ==
    /\ ~rendered
    /\ summary' = Render(timeZone, records, fromDate, toDate)
    /\ rendered' = TRUE
    /\ UNCHANGED <<recordVars, timeZone, fromDate, toDate, records, appVars>>

NextSummary == RenderSummary

SpecSummary == InitSummary /\ [][NextSummary]_vars

----------------------------------------------------------------------------
(* The per-record helpers applied to one record *)

InitRecord ==
    /\ record \in RecordInputs
    /\ calls = {}
    /\ workingHours = Undefined
    /\ chartHours = Undefined
    /\ late = FALSE
    /\ parsedIn = Undefined
    /\ parsedOut = Undefined
    /\ bin = "none"
    /\ timeZone = "UTC"
    /\ fromDate = EmptyString
    /\ toDate = EmptyString
    /\ records = <<>>
    /\ rendered = FALSE
    /\ summary = NoSummary
    /\ Mounted

\* The average and the table use getWorkingHours(r): cap = true.
CallGetWorkingHours ==
    /\ "capped" \notin calls
    /\ workingHours' = getWorkingHours(record, TRUE)
    /\ calls' = calls \cup {"capped"}
    /\ UNCHANGED <<record, chartHours, late, parsedIn, parsedOut, bin, summaryVars, appVars>>

\* workingHoursChartData maps every record to getWorkingHours(record, false).
CallGetWorkingHoursUncapped ==
    /\ "uncapped" \notin calls
    /\ chartHours' = getWorkingHours(record, FALSE)
    /\ calls' = calls \cup {"uncapped"}
    /\ UNCHANGED <<record, workingHours, late, parsedIn, parsedOut, bin, summaryVars, appVars>>

\* The table's Late column: isLate(record.Check_In).
CallIsLate ==
    /\ "isLate" \notin calls
    /\ late' = isLate(record.Check_In)
    /\ calls' = calls \cup {"isLate"}
    /\ UNCHANGED <<record, workingHours, chartHours, parsedIn, parsedOut, bin, summaryVars, appVars>>

\* The first two statements of getWorkingHours: both times parsed.
CallTimeToHours ==
    /\ "timeToHours" \notin calls
    /\ parsedIn' = timeToHours(record.Check_In)
    /\ parsedOut' = timeToHours(record.Check_Out)
    /\ calls' = calls \cup {"timeToHours"}
    /\ UNCHANGED <<record, workingHours, chartHours, late, bin, summaryVars, appVars>>

\* One iteration of the forEach of checkInDistributionData.
CallCheckInBin ==
    /\ "bin" \notin calls
    /\ bin' = checkInBin(record)
    /\ calls' = calls \cup {"bin"}
    /\ UNCHANGED <<record, workingHours, chartHours, late, parsedIn, parsedOut,
                   summaryVars, appVars>>

NextRecord ==
    \/ CallGetWorkingHours
    \/ CallGetWorkingHoursUncapped
    \/ CallIsLate
    \/ CallTimeToHours
    \/ CallCheckInBin

SpecRecord == InitRecord /\ [][NextRecord]_vars

----------------------------------------------------------------------------
(* The App component: its state, its handlers up to and after each await, *)
(* and the effect that fetches the employee list.  State writes of one    *)
(* handler run are applied together and followed by one render; a handler *)
(* of the page runs on the state of the last render, after its effects.   *)
(* Left out: theme, email, password, loginError, dashboardDownloadUrl.    *)

MaxSearches == 2
MaxEmployeeFetches == 1

\* What the employee select, the date inputs and the login form can hold,
\* and what the backend can answer with.
\* The options of the employee select: "Select Employee" and one for
\* each employee of the list, with the Employee_ID the backend sent.
EmployeeIds(list) ==
    {EmptyString} \cup { Str(list[k]) : k \in 1..Len(list) }
FromDates == {EmptyString, WindowDate(1)}
ToDates == {EmptyString, WindowDate(4)}
Credentials ==
    { [email |-> "admin@artpark.com", password |-> "password123"],
      [email |-> "admin@artpark.com", password |-> ""] }
\* What a search returns: nothing, or the rows of an employee absent on
\* the Friday and on the Monday.
Responses ==
    { <<>>, <<AbsentDay(WindowDate(1)), AbsentDay(WindowDate(4))>> }
\* No employees, or two whose ids the export has padded: " 7", and one
\* that is white space only.
EmployeeLists == { <<>>, << <<" ", "7">>, <<"\t", " ">> >> }

\* What a failed request throws: the error of the HTTP client, with its
\* code, its message and, if the server answered, the status and the body
\* (response.data): an object with its message and error fields (empty
\* when it has none), or null.
NoResponse == [status |-> 0, body |-> FALSE, message |-> <<>>, error |-> <<>>]
PlainError ==
    [code |-> "", message |-> <<"x">>, answered |-> FALSE,
     response |-> NoResponse]
NetworkError ==
    [code |-> "ERR_NETWORK",
     message |-> <<"N", "e", "t", "w", "o", "r", "k", " ", "E", "r", "r", "o", "r">>,
     answered |-> FALSE, response |-> NoResponse]
BadResponse ==
    <<"R", "e", "q", "u", "e", "s", "t", " ", "f", "a", "i", "l", "e", "d">>
ServerError ==
    [code |-> "ERR_BAD_RESPONSE", message |-> BadResponse, answered |-> TRUE,
     response |-> [status |-> 500, body |-> TRUE, message |-> <<>>,
                   error |-> <<"b", "a", "d">>]]
NullBodyError ==
    [code |-> "ERR_BAD_RESPONSE", message |-> BadResponse, answered |-> TRUE,
     response |-> [status |-> 500, body |-> FALSE, message |-> <<>>,
                   error |-> <<>>]]
SearchErrors == { NetworkError, NullBodyError }
EmployeeErrors == { ServerError, NullBodyError }
UploadErrors == { PlainError, ServerError }

\* The text of a sequence of characters.
RECURSIVE Text(_)
Text(s) == IF s = <<>> THEN "" ELSE Head(s) \o Text(Tail(s))

\* String.prototype.includes.
includes(s, part) ==
    \E i \in 0..(Len(s) - Len(part)) : SubSeq(s, i + 1, i + Len(part)) = part

TimedOut(err) ==
    err.code = "ECONNABORTED"
        /\ includes(err.message, <<"t", "i", "m", "e", "o", "u", "t">>)

\* `Server responded with status ${status}: ${data.message || err.message}`
ServerResponded(err) ==
    "Server responded with status " \o Text(NatToString(err.response.status))
        \o ": "
        \o Text(IF err.response.message # <<>> THEN err.response.message
                ELSE err.message)

\* The messages the handlers put in error and uploadMessage.
SelectSomething == "Please select an employee or a date range to search."
NoRecordsFound == "No records found for the selected criteria."
ServerMessage == "response.data.message"
SelectBothFiles ==
    "Please select both Employee Data (binary) and Attendance Data (.dat/.txt) files."

\* The catch block of fetchRecords reads err.response.data.message when
\* the server answered, which throws for a body of null: the writes after
\* it are skipped and only the finally block runs.
FetchRecordsThrows(err) ==
    err.code # "ECONNREFUSED" /\ err.answered /\ ~err.response.body

\* errorMessage of the catch block of fetchRecords.
FetchRecordsFailed(err) ==
    IF err.code = "ECONNREFUSED"
    THEN "Cannot connect to the backend server. Please ensure it is running and accessible."
    ELSE IF err.answered THEN ServerResponded(err)
    ELSE IF err.code = "ERR_CORS"
    THEN "CORS issue detected. Check your backend CORS configuration."
    ELSE IF err.code = "ERR_NETWORK"
    THEN "Network error. Please check your internet connection."
    ELSE IF TimedOut(err)
    THEN "Request to fetch records timed out. Backend might be busy or slow."
    ELSE IF err.code = "ERR_BAD_RESPONSE"
    THEN "Received a bad response from the server. Check backend logs."
    ELSE "Failed to fetch records: " \o Text(err.message)

\* The same read in the catch block of fetchEmployees.
FetchEmployeesThrows(err) ==
    ~TimedOut(err) /\ err.answered /\ ~err.response.body

\* errorMessage of the catch block of fetchEmployees.
FetchEmployeesFailed(err) ==
    IF TimedOut(err)
    THEN "Request to fetch employees timed out. Backend might be busy or slow."
    ELSE IF err.answered THEN ServerResponded(err)
    ELSE "Failed to fetch employee list. Please ensure the backend server is running and data has been processed."

\* errorMessage of the catch block of handleUpload.
UploadFailed(err) ==
    IF err.answered /\ err.response.body /\ err.response.error # <<>>
    THEN "Error: " \o Text(err.response.error)
    ELSE IF err.code = "ECONNREFUSED"
    THEN "Cannot connect to the backend server. Please ensure it is running."
    ELSE IF err.code = "ERR_NETWORK"
    THEN "Network error during upload. Please check your connection."
    ELSE IF TimedOut(err)
    THEN "Upload request timed out. Backend processing is taking too long."
    ELSE "Failed to upload and process files."

InitApp ==
    /\ record = [Check_In |-> NA, Check_Out |-> NA, Working_Hours |-> NA]
    /\ calls = {}
    /\ workingHours = Undefined
    /\ chartHours = Undefined
    /\ late = FALSE
    /\ parsedIn = Undefined
    /\ parsedOut = Undefined
    /\ bin = "none"
    /\ timeZone = "UTC"
    /\ fromDate = EmptyString
    /\ toDate = EmptyString
    /\ records = <<>>
    /\ rendered = FALSE
    /\ summary = NoSummary
    /\ Mounted

\* A state write schedules a render; until then the statistics of the
\* render before are of no use.
Dirty == rendered' = FALSE /\ summary' = NoSummary

\* The page as last rendered, its effects run: what an event handler of
\* the page runs on.
Settled == rendered /\ effectDeps = <<isLoggedIn, uploadMessage>>

\* The requests for the employee list in flight and still to be sent by
\* what has happened: one by the effect that is due while logged in, one
\* by the upload in flight, whose success calls fetchEmployees and whose
\* failure changes uploadMessage.  An event of the page happens only if
\* this stays within MaxEmployeeFetches, so that no continuation and no
\* effect ever waits for the bound.
EffectDue == isLoggedIn /\ effectDeps # <<isLoggedIn, uploadMessage>>
EmployeeDemand ==
    employeeFetches + (IF EffectDue THEN 1 ELSE 0)
        + (IF upload.inFlight THEN 1 ELSE 0)
WithinEmployeeFetches == EmployeeDemand <= MaxEmployeeFetches

\* useEffect(..., [isLoggedIn, uploadMessage]): after a render in which
\* either changed, fetchEmployees if logged in (up to its await).
EmployeesEffect ==
    /\ rendered /\ effectDeps # <<isLoggedIn, uploadMessage>>
    /\ effectDeps' = <<isLoggedIn, uploadMessage>>
    /\ IF isLoggedIn
       THEN /\ employeeFetches' = employeeFetches + 1
            /\ loading' = TRUE
            /\ error' = Null
            /\ Dirty
       ELSE UNCHANGED <<employeeFetches, loading, error, rendered, summary>>
    /\ UNCHANGED <<recordVars, timeZone, fromDate, toDate, records,
                   isLoggedIn, employeeId, searches, latestInFlight, upload,
                   employees, uploadMessage, employeeFile, attendanceFile,
                   latestResult>>

\* fetchEmployees after its await, the request answered, with or without
\* a message.
EmployeesResolve(list, message) ==
    /\ rendered /\ employeeFetches > 0
    /\ employeeFetches' = employeeFetches - 1
    /\ employees' = list
    /\ error' = message
    /\ loading' = FALSE
    /\ Dirty
    /\ UNCHANGED <<recordVars, timeZone, fromDate, toDate, records,
                   isLoggedIn, employeeId, searches, latestInFlight, upload,
                   uploadMessage, employeeFile, attendanceFile, effectDeps,
                   latestResult>>

\* fetchEmployees after its await, the request failed: the catch block,
\* as far as it gets, and the finally block.
EmployeesReject(err) ==
    /\ rendered /\ employeeFetches > 0
    /\ employeeFetches' = employeeFetches - 1
    /\ IF FetchEmployeesThrows(err) THEN UNCHANGED <<employees, error>>
       ELSE /\ employees' = <<>>
            /\ error' = FetchEmployeesFailed(err)
    /\ loading' = FALSE
    /\ Dirty
    /\ UNCHANGED <<recordVars, timeZone, fromDate, toDate, records,
                   isLoggedIn, employeeId, searches, latestInFlight, upload,
                   uploadMessage, employeeFile, attendanceFile, effectDeps,
                   latestResult>>

\* handleLogin: the form of the login page, shown while logged out.
HandleLogin ==
    /\ Settled /\ ~isLoggedIn
    /\ \E c \in Credentials :
           isLoggedIn' = (c.email = "admin@artpark.com"
                              /\ c.password = "password123")
    /\ Dirty
    /\ UNCHANGED <<recordVars, timeZone, fromDate, toDate, records,
                   employeeId, searches, latestInFlight, upload, loading, error,
                   employees, uploadMessage, employeeFile, attendanceFile,
                   employeeFetches, effectDeps, latestResult>>
    /\ WithinEmployeeFetches'

\* handleLogout: requests in flight are not cancelled.
HandleLogout ==
    /\ Settled /\ isLoggedIn
    /\ isLoggedIn' = FALSE
    /\ records' = <<>>
    /\ employeeId' = EmptyString
    /\ fromDate' = EmptyString
    /\ toDate' = EmptyString
    /\ error' = Null
    /\ uploadMessage' = ""
    /\ employees' = <<>>
    /\ latestResult' = NoResult
    /\ Dirty
    /\ UNCHANGED <<recordVars, timeZone, searches, latestInFlight, upload,
                   loading, employeeFile, attendanceFile, employeeFetches,
                   effectDeps>>

\* onChange of the employee select.
SetEmployeeId(v) ==
    /\ Settled /\ isLoggedIn
    /\ employeeId' = v
    /\ Dirty
    /\ UNCHANGED <<recordVars, timeZone, fromDate, toDate, records,
                   isLoggedIn, searches, latestInFlight, upload, loading, error,
                   employees, uploadMessage, employeeFile, attendanceFile,
                   employeeFetches, effectDeps, latestResult>>

\* onChange of the From Date input.
SetFromDate(v) ==
    /\ Settled /\ isLoggedIn
    /\ fromDate' = v
    /\ Dirty
    /\ UNCHANGED <<recordVars, timeZone, toDate, records, appVars>>

\* onChange of the To Date input.
SetToDate(v) ==
    /\ Settled /\ isLoggedIn
    /\ toDate' = v
    /\ Dirty
    /\ UNCHANGED <<recordVars, timeZone, fromDate, records, appVars>>

\* handleEmployeeFileChange: a file is chosen.
HandleEmployeeFileChange(file) ==
    /\ Settled /\ isLoggedIn
    /\ employeeFile' = file
    /\ uploadMessage' = ""
    /\ Dirty
    /\ UNCHANGED <<recordVars, timeZone, fromDate, toDate, records,
                   isLoggedIn, employeeId, searches, latestInFlight, upload, loading,
                   error, employees, attendanceFile, employeeFetches,
                   effectDeps, latestResult>>
    /\ WithinEmployeeFetches'

\* handleAttendanceFileChange.
HandleAttendanceFileChange(file) ==
    /\ Settled /\ isLoggedIn
    /\ attendanceFile' = file
    /\ uploadMessage' = ""
    /\ Dirty
    /\ UNCHANGED <<recordVars, timeZone, fromDate, toDate, records,
                   isLoggedIn, employeeId, searches, latestInFlight, upload, loading,
                   error, employees, employeeFile, employeeFetches,
                   effectDeps, latestResult>>
    /\ WithinEmployeeFetches'

\* A guard that asks for an employee or both dates.
NothingToSearchBothDates(emp, from, to) ==
    Falsy(trim(emp)) /\ (Falsy(trim(from)) \/ Falsy(trim(to)))

\* The guard of fetchRecords: nothing selected after trimming.
NothingToSearch(emp, from, to) ==
    Falsy(trim(emp)) /\ Falsy(trim(from)) /\ Falsy(trim(to))

\* The search requests in flight and the one a successful upload will
\* send; an event of the page happens only if this stays within
\* MaxSearches.
SearchDemand ==
    searches
        + (IF upload.inFlight
              /\ ~NothingToSearch(upload.employeeId, upload.fromDate,
                                  upload.toDate)
           THEN 1 ELSE 0)
WithinSearches == SearchDemand <= MaxSearches

\* fetchRecords up to its await: it returns early with an error or sends
\* one request.
FetchRecords(emp, from, to) ==
    /\ uploadMessage' = ""
    /\ IF NothingToSearch(emp, from, to)
       THEN /\ error' = SelectSomething
            /\ loading' = FALSE
            /\ UNCHANGED <<searches, latestInFlight, latestResult>>
       ELSE /\ error' = Null
            /\ loading' = TRUE
            /\ searches' = searches + 1
            /\ latestInFlight' = TRUE
            /\ latestResult' = NoResult

\* handleSearch: fetchRecords with the state of the current render; the
\* Search button is disabled while loading.
HandleSearch ==
    /\ Settled /\ isLoggedIn /\ ~loading
    /\ FetchRecords(employeeId, fromDate, toDate)
    /\ Dirty
    /\ UNCHANGED <<recordVars, timeZone, fromDate, toDate, records,
                   isLoggedIn, employeeId, upload, employees, employeeFile,
                   attendanceFile, employeeFetches, effectDeps>>
    /\ WithinSearches' /\ WithinEmployeeFetches'

\* A request of fetchRecords that can be answered now: the one sent last,
\* or one sent before it.
InFlight(latest) ==
    IF latest THEN latestInFlight
    ELSE searches > (IF latestInFlight THEN 1 ELSE 0)

\* fetchRecords after its await, the request answered: with no rows error
\* is the server's message or the default one, both taken as one text;
\* with rows the else branch sets error to null, whatever another handler
\* wrote to it since the request was sent.
SearchResolves(latest, response) ==
    /\ rendered /\ InFlight(latest)
    /\ records' = response
    /\ error' = IF Len(response) = 0 THEN NoRecordsFound ELSE Null
    /\ loading' = FALSE
    /\ searches' = searches - 1
    /\ latestInFlight' = (latestInFlight /\ ~latest)
    /\ latestResult' = IF latest THEN [done |-> TRUE, records |-> response]
                       ELSE latestResult
    /\ Dirty
    /\ UNCHANGED <<recordVars, timeZone, fromDate, toDate,
                   isLoggedIn, employeeId, upload, employees,
                   uploadMessage, employeeFile, attendanceFile,
                   employeeFetches, effectDeps>>

\* fetchRecords after its await, the request failed: the catch block, as
\* far as it gets, and the finally block.
SearchRejects(latest, err) ==
    /\ rendered /\ InFlight(latest)
    /\ IF FetchRecordsThrows(err) THEN UNCHANGED <<records, error>>
       ELSE /\ records' = <<>>
            /\ error' = FetchRecordsFailed(err)
    /\ loading' = FALSE
    /\ searches' = searches - 1
    /\ latestInFlight' = (latestInFlight /\ ~latest)
    /\ latestResult' = IF latest THEN [done |-> TRUE, records |-> <<>>]
                       ELSE latestResult
    /\ Dirty
    /\ UNCHANGED <<recordVars, timeZone, fromDate, toDate,
                   isLoggedIn, employeeId, upload, employees,
                   uploadMessage, employeeFile, attendanceFile,
                   employeeFetches, effectDeps>>

\* handleUpload up to its await.  The Upload button is disabled unless
\* both files are chosen and no upload is in flight, so the handler's own
\* test for a missing file is never met from the page.
HandleUpload ==
    /\ Settled /\ isLoggedIn
    /\ employeeFile /\ attendanceFile /\ ~upload.inFlight
    /\ IF ~employeeFile \/ ~attendanceFile
       THEN /\ uploadMessage' = SelectBothFiles
            /\ UNCHANGED <<upload, error>>
       ELSE /\ upload' = [inFlight |-> TRUE, employeeId |-> employeeId,
                          fromDate |-> fromDate, toDate |-> toDate]
            /\ uploadMessage' = ""
            /\ error' = Null
    /\ Dirty
    /\ UNCHANGED <<recordVars, timeZone, fromDate, toDate, records,
                   isLoggedIn, employeeId, searches, latestInFlight, loading,
                   employees, employeeFile, attendanceFile, employeeFetches,
                   effectDeps, latestResult>>
    /\ WithinSearches' /\ WithinEmployeeFetches'

\* handleUpload after its await, the upload accepted: fetchEmployees and
\* fetchRecords run up to their awaits, fetchRecords with the state
\* handleUpload was created with, then the finally block.
UploadResolves ==
    /\ rendered /\ upload.inFlight
    /\ employeeFetches' = employeeFetches + 1
    /\ FetchRecords(upload.employeeId, upload.fromDate, upload.toDate)
    /\ upload' = NoUpload
    /\ employeeFile' = FALSE
    /\ attendanceFile' = FALSE
    /\ Dirty
    /\ UNCHANGED <<recordVars, timeZone, fromDate, toDate, records,
                   isLoggedIn, employeeId, employees, effectDeps>>

\* handleUpload after its await, the upload failed.
UploadRejects(err) ==
    /\ rendered /\ upload.inFlight
    /\ uploadMessage' = UploadFailed(err)
    /\ error' = UploadFailed(err)
    /\ upload' = NoUpload
    /\ employeeFile' = FALSE
    /\ attendanceFile' = FALSE
    /\ Dirty
    /\ UNCHANGED <<recordVars, timeZone, fromDate, toDate, records,
                   isLoggedIn, employeeId, searches, latestInFlight, loading,
                   employees, employeeFetches, effectDeps, latestResult>>

NextApp ==
    \/ RenderSummary
    \/ EmployeesEffect
    \/ \E list \in EmployeeLists, message \in {Null, ServerMessage} :
           EmployeesResolve(list, message)
    \/ \E err \in EmployeeErrors : EmployeesReject(err)
    \/ HandleLogin
    \/ HandleLogout
    \/ \E v \in EmployeeIds(employees) : SetEmployeeId(v)
    \/ \E v \in FromDates : SetFromDate(v)
    \/ \E v \in ToDates : SetToDate(v)
    \/ HandleEmployeeFileChange(TRUE)
    \/ HandleAttendanceFileChange(TRUE)
    \/ HandleSearch
    \/ \E latest \in BOOLEAN, response \in Responses :
           SearchResolves(latest, response)
    \/ \E latest \in BOOLEAN, err \in SearchErrors : SearchRejects(latest, err)
    \/ HandleUpload
    \/ UploadResolves
    \/ \E err \in UploadErrors : UploadRejects(err)

SpecApp == InitApp /\ [][NextApp]_vars

----------------------------------------------------------------------------
(* Per-record claims *)

\* Seconds since midnight of an <<hour, minute, second>> triple.
SecondsOf(t) == t[1] * 3600 + t[2] * 60 + t[3]

\* A field that holds a well-formed clock string, and its time of day.
CheckInClockOf(x)  == { t \in CheckInClocks : x = ClockHMS(t[1], t[2], t[3]) }
CheckOutClockOf(x) == { t \in CheckOutClocks : x = ClockHMS(t[1], t[2], t[3]) }
HasCheckIn(rec)  == CheckInClockOf(rec.Check_In) # {}
HasCheckOut(rec) == CheckOutClockOf(rec.Check_Out) # {}
CheckInSeconds(rec)  == SecondsOf(CHOOSE t \in CheckInClockOf(rec.Check_In) : TRUE)
CheckOutSeconds(rec) == SecondsOf(CHOOSE t \in CheckOutClockOf(rec.Check_Out) : TRUE)

\* A record whose two time fields are each a sentinel or a well-formed clock.
WellFormed(rec) ==
    /\ rec.Check_In \in Sentinels \/ HasCheckIn(rec)
    /\ rec.Check_Out \in Sentinels \/ HasCheckOut(rec)

PolicyMax == (15 * Scale) \div 2
ShiftStart == (19 * Scale) \div 2
ShiftEnd == 17 * Scale

\* n seconds clamped into [0, 7.5 hours], and a number of hours clamped.
Clamp(n) == IF n < 0 THEN 0 ELSE IF n > PolicyMax THEN PolicyMax ELSE n
ClampNumber(x) ==
    IF Less(x, Lit(0, 1)) THEN Lit(0, 1)
    ELSE IF Greater(x, Lit(15, 2)) THEN Lit(15, 2)
    ELSE x

WithinPolicy(x) == GreaterEq(x, Lit(0, 1)) /\ LessEq(x, Lit(15, 2))

Both == {"capped", "uncapped"}

\* C1 (as claimed): for every record with well-formed or missing times and
\* any Working_Hours value, getWorkingHours(record, true) lies in [0, 7.5].
C1_CappedWithinPolicy ==
    ("capped" \in calls /\ WellFormed(record)) => WithinPolicy(workingHours)

\* C7: isLate is false for the sentinels and for every clock time at or
\* before 9:30:00, and true for every clock time after 9:30:00.
C7_IsLate ==
    "isLate" \in calls =>
        /\ record.Check_In \in Sentinels => ~late
        /\ \A t \in CheckInClocks :
               record.Check_In = ClockHMS(t[1], t[2], t[3])
                   => (late <=> SecondsOf(t) > SecondsOf(<<9, 30, 0>>))
        /\ record.Check_In = ClockHM(9, 30) => ~late
        /\ record.Check_In = ClockHM(9, 31) => late

\* C7 witness: a check-in one second after 9:30 has been classified late.
C7_Witness ==
    "isLate" \in calls /\ record.Check_In = ClockHMS(9, 30, 1) /\ late

\* C8: with a clock time missing, both missing gives 0 in either mode;
\* check-out only gives checkOut - 9.5 and check-in only 17.0 - checkIn,
\* unfloored when uncapped and clamped into [0, 7.5] when capped.
C8_OneSidedTable ==
    (Both \subseteq calls /\ WellFormed(record)) =>
        /\ (record.Check_In \in Sentinels /\ record.Check_Out \in Sentinels)
               => workingHours = Lit(0, 1) /\ chartHours = Lit(0, 1)
        /\ (record.Check_In \in Sentinels /\ HasCheckOut(record))
               => /\ IsSeconds(chartHours, CheckOutSeconds(record) - ShiftStart)
                  /\ IsSeconds(workingHours,
                               Clamp(CheckOutSeconds(record) - ShiftStart))
        /\ (HasCheckIn(record) /\ record.Check_Out \in Sentinels)
               => /\ IsSeconds(chartHours, ShiftEnd - CheckInSeconds(record))
                  /\ IsSeconds(workingHours,
                               Clamp(ShiftEnd - CheckInSeconds(record)))

\* C8 witness: only a check-out, earlier than the shift start, gave a
\* negative uncapped value and a capped value of 0.
C8_Witness ==
    /\ Both \subseteq calls
    /\ record.Check_In = NA /\ record.Check_Out = ClockHMS(9, 15, 0)
    /\ chartHours = Lit(-1, 4) /\ workingHours = Lit(0, 1)

\* The numeric Working_Hours values of the input set, with their values;
\* the other values are absent, the marker or not a number.
Reported ==
    { <<Lit(0, 1), 0>>, <<Lit(13, 2), (13 * Scale) \div 2>>,
      <<Lit(15, 2), (15 * Scale) \div 2>>, <<Lit(9, 1), 9 * Scale>>,
      <<Lit(-2, 1), 0 - 2 * Scale>>,
      <<Str(<<"6", ".", "5">>), (13 * Scale) \div 2>>,
      <<Str(<<"8", ".", "2", "5">>), (33 * Scale) \div 4>>,
      <<Str(<<"-", "1", ".", "5">>), 0 - (3 * Scale) \div 2>>,
      <<Str(<<" ", "6", ".", "5">>), (13 * Scale) \div 2>>,
      <<Str(<<"1", "e", "1">>), 10 * Scale>> }
ReportedOf(rec) == { p \in Reported : p[1] = rec.Working_Hours }

\* What getWorkingHours reads from Working_Hours: the numeric values, and
\* 7 from the duration "7:30".
Parsed == Reported \cup { <<Str(<<"7", ":", "3", "0">>), 7 * Scale>> }
ParsedOf(rec) == { p \in Parsed : p[1] = rec.Working_Hours }
ReportedValue(rec) == (CHOOSE p \in ReportedOf(rec) : TRUE)[2]
RawSeconds(rec) == CheckOutSeconds(rec) - CheckInSeconds(rec)

\* n seconds lowered to 7.5 hours if above: the cap of a reported value.
UnderCap(n) == IF n > PolicyMax THEN PolicyMax ELSE n

\* C9 (as claimed): with both times present the value chosen is
\* Working_Hours when it is present and numeric, and checkOut - checkIn
\* when it is absent, not numeric or 'N/A'; the choice is the same in both
\* modes, the capped mode showing the chosen value under its cap.
C9_ReportedPreferred ==
    (Both \subseteq calls /\ HasCheckIn(record) /\ HasCheckOut(record)) =>
        IF ReportedOf(record) # {}
        THEN /\ IsSeconds(chartHours, ReportedValue(record))
             /\ IsSeconds(workingHours, UnderCap(ReportedValue(record)))
        ELSE /\ IsSeconds(chartHours, RawSeconds(record))
             /\ IsSeconds(workingHours, Clamp(RawSeconds(record)))

\* C10 (as claimed): for every record the capped result is the uncapped
\* result clamped into [0, 7.5].
C10_CappedIsClampOfUncapped ==
    (Both \subseteq calls /\ WellFormed(record)) =>
        /\ IsNumber(chartHours)
        /\ NumberEquals(workingHours, ClampNumber(chartHours))

----------------------------------------------------------------------------
(* Summary claims *)

Weekend == {"Saturday", "Sunday"}
RangeGiven == fromDate # EmptyString /\ toDate # EmptyString

\* The position in the window of a date input.
DayIndex(x) == CHOOSE i \in WindowDays : WindowDate(i) = x
InRange(i) == DayIndex(fromDate) <= i /\ i <= DayIndex(toDate)

Listed(seq, date) == \E k \in 1..Len(seq) : seq[k].date = date
HasRecordOn(i) == \E k \in 1..Len(records) : records[k].Date = WindowDate(i)
HasAbsentOn(i) ==
    \E k \in 1..Len(records) :
        records[k].Date = WindowDate(i) /\ records[k].Status = "ABSENT"

\* The capped hours the policy assigns to a record of the input sets.
ProfilesOf(r) ==
    { p \in HoursProfiles :
         /\ p[1].Check_In = r.Check_In /\ p[1].Check_Out = r.Check_Out
         /\ p[1].Working_Hours = r.Working_Hours }
HasProfile(r) == ProfilesOf(r) # {}
PolicyHours(r) == (CHOOSE p \in ProfilesOf(r) : TRUE)[2]
Worked == { k \in 1..Len(records) : PolicyHours(records[k]) > 0 }
RECURSIVE SumPolicyHours(_)
SumPolicyHours(S) ==
    IF S = {} THEN 0
    ELSE LET k == CHOOSE x \in S : TRUE
         IN  PolicyHours(records[k]) + SumPolicyHours(S \ {k})

\* A non-negative number of hundredths written with two decimals.
TwoDecimals(h) == Str(NatToString(h \div 100) \o <<".">> \o TwoDigits(h % 100))

\* The mean over the records with positive hours, rounded to hundredths.
MeanOfWorked ==
    IF Worked = {} THEN TwoDecimals(0)
    ELSE LET n == Cardinality(Worked)
         IN  TwoDecimals((2 * 100 * SumPolicyHours(Worked) + Scale * n)
                             \div (2 * Scale * n))

\* C2 (as claimed): averageWorkingHours is the mean of the capped hours
\* over the records with positive capped hours only, to two decimals, and
\* the string "0.00" when no record qualifies.
C2_AverageOverWorked ==
    (rendered /\ \A k \in 1..Len(records) : HasProfile(records[k]))
        => summary.avgWorkingHours = MeanOfWorked

\* C3 (as claimed): with both bounds given, a date of the range is in
\* absentDates exactly if it has no record and is not a Saturday or Sunday,
\* or has a record with Status ABSENT.
C3_AbsentExactly ==
    (rendered /\ RangeGiven) =>
        \A i \in WindowDays :
            InRange(i) =>
                (Listed(summary.absentDates, WindowDate(i))
                     <=> \/ ~HasRecordOn(i) /\ WindowWeekday(i) \notin Weekend
                         \/ HasAbsentOn(i))

\* C4 (as claimed): for an empty record set and any date range the total
\* is 0, absentDates is empty and the average is "0.00".
C4_EmptyAllZero ==
    (rendered /\ records = <<>>) =>
        /\ summary.totalAttendance = 0
        /\ summary.absentDates = <<>>
        /\ summary.avgWorkingHours = TwoDecimals(0)

\* C5: with fromDate or toDate missing absentDates is empty for every
\* record set and totalDays is the number of records.
C5_NoRangeNoAbsence ==
    (rendered /\ ~RangeGiven) =>
        /\ summary.absentDates = <<>>
        /\ summary.totalDays = Len(records)

\* C5 witness: only the From bound is set, the records hold an ABSENT and
\* a PRESENT day, and the render listed no absence and counted two days.
C5_Witness ==
    /\ rendered /\ fromDate = WindowDate(1) /\ toDate = EmptyString
    /\ records = <<AbsentDay(WindowDate(4)), PresentDay(WindowDate(1))>>
    /\ summary.absentDates = <<>> /\ summary.totalDays = 2

\* C6 (as claimed): with both bounds totalDays is the day difference plus
\* one, which for fromDate <= toDate is the inclusive day count and the
\* number of dates the absence loop enumerates; otherwise it is the number
\* of records.
C6_TotalDays ==
    rendered =>
        IF RangeGiven
        THEN /\ summary.totalDays = DayIndex(toDate) - DayIndex(fromDate) + 1
             /\ DayIndex(fromDate) <= DayIndex(toDate)
                    => summary.totalDays = Len(summary.enumerated)
        ELSE summary.totalDays = Len(records)

----------------------------------------------------------------------------
(* Binner, chart and parser claims *)

RECURSIVE SumSeq(_)
SumSeq(q) == IF q = <<>> THEN 0 ELSE Head(q) + SumSeq(Tail(q))

\* A well-formed time string, HH:MM:SS or HH:MM, and its time of day in
\* seconds.
IsHMS(x) ==
    /\ x.type = "string" /\ Len(x.str) = 8
    /\ x.str[3] = ":" /\ x.str[6] = ":"
    /\ \A i \in {1, 2, 4, 5, 7, 8} : IsDigit(x.str[i])
IsHM(x) ==
    /\ x.type = "string" /\ Len(x.str) = 5
    /\ x.str[3] = ":"
    /\ \A i \in {1, 2, 4, 5} : IsDigit(x.str[i])
IsClock(x) == IsHMS(x) \/ IsHM(x)
TwoDigitsAt(x, i) == 10 * DigitValue(x.str[i]) + DigitValue(x.str[i + 1])
ClockSeconds(x) ==
    3600 * TwoDigitsAt(x, 1) + 60 * TwoDigitsAt(x, 4)
        + (IF IsHMS(x) THEN TwoDigitsAt(x, 7) ELSE 0)

\* The position of the bucket whose half-open range holds n seconds.
RangeBucket(n) ==
    IF n < 8 * 3600 THEN 1
    ELSE IF n < 9 * 3600 THEN 2
    ELSE IF n < 9 * 3600 + 1800 THEN 3
    ELSE IF n < 10 * 3600 + 1800 THEN 4
    ELSE IF n < 11 * 3600 + 1800 THEN 5
    ELSE IF n < 12 * 3600 + 1800 THEN 6
    ELSE 7
MissingBucket == 8

\* The bucket of a record with a sentinel or well-formed check-in.
BucketOf(r) ==
    IF r.Check_In \in Sentinels THEN MissingBucket
    ELSE RangeBucket(ClockSeconds(r.Check_In))
Binnable(r) == r.Check_In \in Sentinels \/ IsClock(r.Check_In)

\* C11: the bucket counts of checkInDistribution sum to the number of
\* records; records with a sentinel check-in are counted in the missing
\* bucket only, and a record whose time parses to NaN is counted once.
C11_BinsCoverRecords ==
    rendered =>
        /\ SumSeq(summary.checkInDistribution.data) = Len(records)
        /\ summary.checkInDistribution.data[MissingBucket]
               = Cardinality({ k \in 1..Len(records) :
                                   records[k].Check_In \in Sentinels })

\* C11 witness: a record with a malformed check-in and one with none were
\* binned, two counts in all, one of them in the missing bucket.
C11_Witness ==
    /\ rendered /\ Len(records) = 2
    /\ records[1].Check_In \in Malformed /\ records[2].Check_In = NA
    /\ SumSeq(summary.checkInDistribution.data) = 2
    /\ summary.checkInDistribution.data[MissingBucket] = 1

\* C12: a record with a present check-in is counted in the bucket of the
\* half-open ranges h<8, 8<=h<9, 9<=h<9.5, 9.5<=h<10.5, 10.5<=h<11.5,
\* 11.5<=h<12.5, h>=12.5, one with a sentinel check-in in the missing
\* bucket, and the buckets come in the same fixed order for every record set.
C12_BinRanges ==
    (rendered /\ \A k \in 1..Len(records) : Binnable(records[k])) =>
        /\ summary.checkInDistribution.labels =
               <<"Before 8 AM", "8:00 - 8:59 AM", "9:00 - 9:29 AM",
                 "9:30 - 10:29 AM (Late)", "10:30 - 11:29 AM (Late)",
                 "11:30 AM - 12:29 PM (Late)", "After 12:30 PM (Late)",
                 "Missing Check-In">>
        /\ \A b \in 1..8 :
               summary.checkInDistribution.data[b]
                   = Cardinality({ k \in 1..Len(records) :
                                       BucketOf(records[k]) = b })

\* C12 witness: check-ins at exactly 9:30:00 and 12:30:00 were counted in
\* the buckets that start there.
C12_Witness ==
    /\ rendered /\ Len(records) = 2
    /\ records[1].Check_In = ClockHMS(9, 30, 0)
    /\ records[2].Check_In = ClockHMS(12, 30, 0)
    /\ summary.checkInDistribution.data = <<0, 0, 0, 1, 0, 0, 1, 0>>

\* C13 (as claimed): the summary has a check-out distribution of six
\* buckets whose counts sum to the number of records.
C13_CheckOutBinsCoverRecords ==
    rendered =>
        /\ Len(summary.checkOutDistribution.labels) = 6
        /\ Len(summary.checkOutDistribution.data) = 6
        /\ SumSeq(summary.checkOutDistribution.data) = Len(records)

\* The dates of a sequence of {date, day} entries.
DatesOf(entries) == [k \in 1..Len(entries) |-> entries[k].date]

\* The dates, in record order, of the PRESENT records of a weekend day.
RECURSIVE WeekendPresent(_)
WeekendPresent(recs) ==
    IF recs = <<>> THEN <<>>
    ELSE (IF Head(recs).Status = "PRESENT"
               /\ WindowWeekday(DayIndex(Head(recs).Date)) \in Weekend
          THEN <<Head(recs).Date>> ELSE <<>>) \o WeekendPresent(Tail(recs))

\* C14 (as claimed): extraWorkingDates holds, in record order, one entry
\* for each PRESENT record dated on a Saturday or Sunday and no other.
C14_ExtraWorkingDates ==
    rendered => DatesOf(summary.extraWorkingDates) = WeekendPresent(records)

\* C15 (as claimed): the absence loop visits every date from fromDate to
\* toDate once, in ascending order, and absentDates is strictly ascending.
C15_EveryDateOnce ==
    (rendered /\ RangeGiven /\ DayIndex(fromDate) <= DayIndex(toDate)) =>
        /\ summary.enumerated
               = [k \in 1..(DayIndex(toDate) - DayIndex(fromDate) + 1)
                      |-> WindowDate(DayIndex(fromDate) + k - 1)]
        /\ \A j, k \in 1..Len(summary.absentDates) :
               j < k => DayIndex(summary.absentDates[j].date)
                            < DayIndex(summary.absentDates[k].date)

\* The records whose capped working hours are a number.
RECURSIVE Usable(_)
Usable(recs) ==
    IF recs = <<>> THEN <<>>
    ELSE (IF isNaN(getWorkingHours(Head(recs), TRUE)) THEN <<>>
          ELSE <<Head(recs)>>) \o Usable(Tail(recs))

\* C16 (as claimed): a record whose working hours are NaN is left out of
\* the average, which is that of the remaining records and never NaN.
C16_NaNExcluded ==
    (rendered /\ Usable(records) # records) =>
        /\ summary.avgWorkingHours # Str(<<"N", "a", "N">>)
        /\ summary.avgWorkingHours = avgWorkingHours(Usable(records))

\* C17: a render, which computes the derived statistics, leaves records,
\* fromDate and toDate as they were; records changes only in a step of
\* fetchRecords (run by the search and by a successful upload) or of
\* handleLogout.
C17_StatisticsReadOnly ==
    [][ /\ (~rendered /\ rendered')
            => (records' = records /\ fromDate' = fromDate
                    /\ toDate' = toDate)
        /\ records' # records
            => \/ HandleLogout
               \/ \E latest \in BOOLEAN, err \in SearchErrors :
                      SearchRejects(latest, err)
               \/ \E latest \in BOOLEAN, response \in Responses :
                      SearchResolves(latest, response) ]_vars

\* C17 witness: two fetched records and an edited range were rendered, and
\* the state still holds them.
C17_Witness ==
    /\ rendered /\ isLoggedIn
    /\ records = <<AbsentDay(WindowDate(1)), AbsentDay(WindowDate(4))>>
    /\ fromDate = WindowDate(1) /\ toDate = WindowDate(4)
    /\ summary = Render(timeZone, records, fromDate, toDate)
    /\ summary.totalAbsent = 2

\* C18: timeToHours is 0 for a sentinel and hours + minutes/60 +
\* seconds/3600 otherwise, seconds counting 0 when left out; over HH:MM:SS
\* strings it grows strictly with the time of day, from 0 at "00:00:00".
C18_TimeToHours ==
    "timeToHours" \in calls =>
        /\ record.Check_In \in Sentinels => parsedIn = Lit(0, 1)
        /\ IsClock(record.Check_In)
               => IsSeconds(parsedIn, ClockSeconds(record.Check_In))
        /\ record.Check_In = ClockHMS(0, 0, 0) => parsedIn = Lit(0, 1)
        /\ (HasCheckIn(record) /\ HasCheckOut(record))
               => /\ CheckInSeconds(record) < CheckOutSeconds(record)
                      => Less(parsedIn, parsedOut)
                  /\ CheckInSeconds(record) = CheckOutSeconds(record)
                      => parsedIn = parsedOut

\* C18 witness: "09:31" parsed to 9 hours 31 minutes, and an earlier
\* check-in parsed below a later check-out one second short of midnight.
C18_Witness ==
    /\ "timeToHours" \in calls /\ record.Check_In = ClockHM(9, 31)
    /\ IsSeconds(parsedIn, 9 * 3600 + 31 * 60)
    /\ record.Check_Out = ClockHMS(23, 59, 59)
    /\ IsSeconds(parsedOut, 24 * 3600 - 1)

\* C19: totalAttendance counts the PRESENT records, and the on-time and
\* late counts of the attendance chart add up to it.
C19_PresentPartition ==
    rendered =>
        /\ summary.totalAttendance
               = Cardinality({ k \in 1..Len(records) :
                                   records[k].Status = "PRESENT" })
        /\ summary.attendanceChartData[1] + summary.attendanceChartData[2]
               = summary.totalAttendance

\* C19 witness: a late PRESENT record beside a late ABSENT one gave a
\* total of 1, counted as late.
C19_Witness ==
    /\ rendered /\ Len(records) = 2
    /\ records[1].Status = "PRESENT" /\ records[1].Check_In = ClockHMS(10, 0, 0)
    /\ records[2].Status = "ABSENT" /\ records[2].Check_In = ClockHMS(10, 0, 0)
    /\ summary.totalAttendance = 1
    /\ summary.attendanceChartData[1] = 0 /\ summary.attendanceChartData[2] = 1

AllCalls == {"capped", "uncapped", "isLate", "timeToHours", "bin"}

\* C20: a check-in of "00:00:00" parses to 0 and is still a present
\* check-in: getWorkingHours takes the 17.0 - 0 branch or the both-present
\* branch (the check-out time less 0, or the hours read from
\* Working_Hours), isLate answers false, and the binner counts it before
\* 8 AM.
C20_MidnightIsPresent ==
    (calls = AllCalls /\ record.Check_In = ClockHMS(0, 0, 0)) =>
        /\ parsedIn = Lit(0, 1)
        /\ record.Check_Out \in Sentinels
               => chartHours = Lit(17, 1) /\ workingHours = Lit(15, 2)
        /\ HasCheckOut(record) =>
               IF ParsedOf(record) = {}
               THEN IsSeconds(chartHours, CheckOutSeconds(record))
               ELSE \A p \in ParsedOf(record) : IsSeconds(chartHours, p[2])
        /\ ~late
        /\ bin = "Before 8 AM"

\* C20 witness: check-in "00:00:00" with no check-out gave 17 hours
\* uncapped and was binned before 8 AM.
C20_Witness ==
    /\ calls = AllCalls
    /\ record.Check_In = ClockHMS(0, 0, 0) /\ record.Check_Out = NA
    /\ chartHours = Lit(17, 1) /\ bin = "Before 8 AM" /\ ~late

----------------------------------------------------------------------------
(* Weekday, lateness and absence claims *)

\* C21 (as claimed): the weekday name attached to every date of
\* absentDates and of extraWorkingDates is the calendar weekday of that ISO
\* date, in every time zone.
C21_WeekdayOfIsoDate ==
    rendered =>
        /\ \A k \in 1..Len(summary.absentDates) :
               summary.absentDates[k].day
                   = WindowWeekday(DayIndex(summary.absentDates[k].date))
        /\ \A k \in 1..Len(summary.extraWorkingDates) :
               summary.extraWorkingDates[k].day
                   = WindowWeekday(DayIndex(summary.extraWorkingDates[k].date))

LateLabels ==
    { "9:30 - 10:29 AM (Late)", "10:30 - 11:29 AM (Late)",
      "11:30 AM - 12:29 PM (Late)", "After 12:30 PM (Late)" }
OnTimeLabels == { "Before 8 AM", "8:00 - 8:59 AM", "9:00 - 9:29 AM" }

\* C22 (as claimed): a record binned under a label marked (Late) is late
\* for isLate, and one binned under an unmarked time label is not.
C22_LateBinsAreLate ==
    ({"isLate", "bin"} \subseteq calls) =>
        /\ bin \in LateLabels => late
        /\ bin \in OnTimeLabels => ~late

\* C24 (as claimed): a date that has a PRESENT record is never listed in
\* absentDates.
C24_PresentNeverAbsent ==
    rendered =>
        \A k \in 1..Len(records) :
            records[k].Status = "PRESENT"
                => ~Listed(summary.absentDates, records[k].Date)

\* C24 (amended): a date whose records are all PRESENT is never listed in
\* absentDates; a date the loop visits that has an ABSENT record is listed,
\* also when another record of that date (another employee's) is PRESENT.
C24_AbsentRecordDecides ==
    rendered =>
        \A k \in 1..Len(records) :
            LET date == records[k].Date
                someAbsent ==
                    \E j \in 1..Len(records) :
                        records[j].Date = date /\ records[j].Status = "ABSENT"
                visited ==
                    \E j \in 1..Len(summary.enumerated) :
                        summary.enumerated[j] = date
            IN  /\ ~someAbsent => ~Listed(summary.absentDates, date)
                /\ (someAbsent /\ visited)
                       => Listed(summary.absentDates, date)

\* C24 witness: Friday 2024-11-01 has a PRESENT and an ABSENT record and
\* is listed, Monday 2024-11-04 was visited and is listed for want of a
\* record.
C24_Witness ==
    /\ rendered /\ Len(records) = 2
    /\ records[1] = PresentDay(WindowDate(1))
    /\ records[2] = AbsentDay(WindowDate(1))
    /\ fromDate = WindowDate(1) /\ toDate = WindowDate(4)
    /\ Listed(summary.absentDates, WindowDate(1))
    /\ Listed(summary.absentDates, WindowDate(4))

----------------------------------------------------------------------------
(* Claims about the App component's handlers and requests *)

\* A step that edits the From Date or the To Date input.
EditsDate ==
    \/ \E v \in FromDates : SetFromDate(v)
    \/ \E v \in ToDates : SetToDate(v)

\* C23 (as claimed): once a search has completed and none is in flight,
\* editing the From Date or To Date input leaves totalDays, absentDates
\* and totalAbsent of the next render as they were shown.
C23_EditKeepsStatistics ==
    [][ (EditsDate /\ latestResult.done /\ searches = 0) =>
            LET after == Render(timeZone, records', fromDate', toDate')
            IN  /\ after.totalDays = summary.totalDays
                /\ after.absentDates = summary.absentDates
                /\ after.totalAbsent = summary.totalAbsent ]_vars

\* C25 (as claimed): loading is true whenever a request of fetchEmployees
\* or of fetchRecords is in flight, so the Search button is disabled then.
C25_LoadingWhileInFlight ==
    (searches > 0 \/ employeeFetches > 0) => loading

\* C26 (as claimed): while logged out, records and employees are empty,
\* also when a response arrives after handleLogout.
C26_EmptyWhileLoggedOut ==
    ~isLoggedIn => (records = <<>> /\ employees = <<>>)

\* C27 (as claimed): with no search request in flight, records is the
\* result of the request sent last: its rows, or none if it failed.
C27_LatestSearchWins ==
    (searches = 0 /\ latestResult.done) => records = latestResult.records

\* A string of white space only, the empty one included.
Blank(x) == \A k \in 1..Len(x.str) : x.str[k] \in WhiteSpace

\* What a run of fetchRecords with these filters is claimed to do.
SearchOutcome(emp, from, to) ==
    IF Blank(emp) /\ Blank(from) /\ Blank(to)
    THEN /\ searches' = searches
         /\ records' = records
         /\ error' # Null
         /\ ~loading'
    ELSE /\ searches' = searches + 1
         /\ latestInFlight'

\* C28: a search with the employee and both dates blank sends no request,
\* leaves records as they are, sets an error and ends with loading false;
\* with one of the three given, one date alone included, it sends exactly
\* one request.  fetchRecords is run by handleSearch with the filters of
\* the page and by a successful upload with those handleUpload saw.
C28_BlankSearchSendsNothing ==
    [][ /\ HandleSearch => SearchOutcome(employeeId, fromDate, toDate)
        /\ UploadResolves =>
               SearchOutcome(upload.employeeId, upload.fromDate,
                             upload.toDate) ]_vars

\* C28 witness: with rows of an earlier search shown, the employee whose
\* id is a tab and a space is selected, no date is set, and the search was
\* turned down with the rows still there.
C28_Witness ==
    /\ isLoggedIn /\ error = SelectSomething /\ ~loading
    /\ employeeId = Str(<<"\t", " ">>)
    /\ fromDate = EmptyString /\ toDate = EmptyString
    /\ searches = 0 /\ records # <<>>

\* C29 (as claimed): a failed search request, whatever the rejection,
\* empties records and sets an error; an answer without rows sets an error
\* and leaves records empty; an answer with rows clears the error; loading
\* is false after each of them.
C29_SearchResponse ==
    [][ /\ (\E latest \in BOOLEAN, err \in SearchErrors :
                 SearchRejects(latest, err))
               => (records' = <<>> /\ error' # Null /\ ~loading')
        /\ \A response \in Responses :
               (\E latest \in BOOLEAN : SearchResolves(latest, response))
                   => /\ records' = response
                      /\ (Len(response) = 0) <=> (error' # Null)
                      /\ ~loading' ]_vars

\* C30 (as claimed): an upload that resolves or rejects ends with no upload
\* in flight and both files cleared, and a request for the employee list
\* or for records is sent only by a successful upload, by the Search
\* button or by the effect after a login.
C30_RefetchOnlyAfterSuccess ==
    [][ /\ (UploadResolves \/ \E err \in UploadErrors : UploadRejects(err))
               => (~upload'.inFlight /\ ~employeeFile' /\ ~attendanceFile')
        /\ employeeFetches' > employeeFetches
               => (UploadResolves
                     \/ (EmployeesEffect /\ effectDeps[1] # isLoggedIn))
        /\ searches' > searches => (UploadResolves \/ HandleSearch) ]_vars

====
